---- MODULE Spec2Model ----
(***************************************************************************)
(* Link store and counter store of the hacker directory (src/lib/db.ts,    *)
(* relational variant).  Every store operation runs on one pooled          *)
(* connection, in one transaction at the store's default isolation level   *)
(* (READ COMMITTED): a statement sees the rows committed when it starts    *)
(* plus its own transaction's writes, a write to a row another open        *)
(* transaction has written waits for that transaction to end and is then   *)
(* evaluated against the newest committed row, and a cycle of waiting       *)
(* transactions is broken by failing one of them.                          *)
(*                                                                         *)
(* Strings are sequences of character codes.  hashUrl (SHA-256 truncated   *)
(* to 64 bits) is modelled as collision-free on the urls of the model.     *)
(***************************************************************************)
EXTENDS Integers, Sequences, FiniteSets, TLC

(* ------------------------------ bounds --------------------------------- *)
MaxToggles == 4
MaxSaves == 2
MaxClicks == 3
MaxSeqCalls == 2
MaxClock == 1
MaxBatch == 2
MaxTicks == 2
MaxKvSaves == 2
MaxCallers == 4
MaxRows == 3
MaxPerPage == 2
MaxPage == 4
MaxUrls == 2
MaxJobs == 3
MaxRequests == 3
MaxAnchors == 2
MaxPageRows == 2
MaxFeedTotal == 9
MaxFeedPerPage == 4
MaxPlayerClicks == 2

(* ------------------------- program constants --------------------------- *)
PoolSize == 3

Procs == 1..PoolSize

(* --------------------------- strings ----------------------------------- *)
\* Character codes: "a" = 97, "b" = 98, "c" = 99, ":" = 58.
ChColon == 58

\* Base64 digits are their 6-bit values; "+" = 62, "/" = 63, the padding
\* "=" and the replacement "_" get the next two codes.
B64Plus == 62
B64Slash == 63
B64Pad == 64
Underscore == 65

RECURSIVE Btoa(_)
Btoa(s) ==
  IF Len(s) = 0 THEN << >>
  ELSE IF Len(s) = 1 THEN
    << s[1] \div 4, (s[1] % 4) * 16, B64Pad, B64Pad >>
  ELSE IF Len(s) = 2 THEN
    << s[1] \div 4, (s[1] % 4) * 16 + (s[2] \div 16), (s[2] % 16) * 4, B64Pad >>
  ELSE
    << s[1] \div 4, (s[1] % 4) * 16 + (s[2] \div 16),
       (s[2] % 16) * 4 + (s[3] \div 64), s[3] % 64 >>
      \o Btoa(SubSeq(s, 4, Len(s)))

ReplaceSlashPlusEq(s) ==
  [i \in 1..Len(s) |->
     IF s[i] \in {B64Slash, B64Plus, B64Pad} THEN Underscore ELSE s[i]]

generateId(commentUrl, extractedLink) ==
  ReplaceSlashPlusEq(Btoa(commentUrl \o <<ChColon>> \o extractedLink))

\* String.prototype.toLowerCase on the letters "A".."Z" (65..90).
toLowerCase(s) ==
  [i \in 1..Len(s) |-> IF s[i] \in 65..90 THEN s[i] + 32 ELSE s[i]]

\* String.prototype.includes
includes(s, sub) ==
  \E k \in 0..(Len(s) - Len(sub)) : SubSeq(s, k + 1, k + Len(sub)) = sub

\* String.prototype.startsWith
startsWith(s, prefix) ==
  /\ Len(s) >= Len(prefix)
  /\ SubSeq(s, 1, Len(prefix)) = prefix

\* The white space of the pages: the space (32).
IsSpace(ch) == ch = 32

\* String.prototype.trim
RECURSIVE trim(_)
trim(s) ==
  IF Len(s) = 0 THEN s
  ELSE IF IsSpace(s[1]) THEN trim(Tail(s))
  ELSE IF IsSpace(s[Len(s)]) THEN trim(SubSeq(s, 1, Len(s) - 1))
  ELSE s

IsDigit(ch) == ch \in 48..57

\* The value of the longest run of decimal digits that s starts with.
RECURSIVE DigitsValue(_, _)
DigitsValue(s, acc) ==
  IF Len(s) = 0 \/ ~IsDigit(s[1]) THEN acc
  ELSE DigitsValue(Tail(s), acc * 10 + (s[1] - 48))

NaN == [nan |-> TRUE, value |-> 0]

\* A number that is not NaN.
Num(v) == [nan |-> FALSE, value |-> v]

\* parseInt(s, 10): leading white space is skipped, then a sign, then the
\* digits up to the first character that is none are read; NaN without a
\* digit there.
RECURSIVE parseInt(_)
parseInt(s) ==
  IF Len(s) = 0 THEN NaN
  ELSE IF IsSpace(s[1]) THEN parseInt(Tail(s))
  ELSE IF s[1] \in { 43, 45 } THEN
    IF Len(s) < 2 \/ ~IsDigit(s[2]) THEN NaN
    ELSE [nan |-> FALSE,
          value |-> IF s[1] = 45 THEN 0 - DigitsValue(Tail(s), 0)
                    ELSE DigitsValue(Tail(s), 0)]
  ELSE IF ~IsDigit(s[1]) THEN NaN
  ELSE [nan |-> FALSE, value |-> DigitsValue(s, 0)]

(* ----------------------------- inputs ---------------------------------- *)
Link(author, commentUrl, extractedLink) ==
  [author |-> author, commentUrl |-> commentUrl, extractedLink |-> extractedLink]

\* An attribute or element that is missing, and one that is there.
Absent == [present |-> FALSE, value |-> << >>]
Present(value) == [present |-> TRUE, value |-> value]

\* const BASE_URL = "https://news.ycombinator.com"
BASE_URL == <<104, 116, 116, 112, 115, 58, 47, 47, 110, 101, 119, 115, 46, 121, 99, 111, 109, 98, 105, 110, 97, 116, 111, 114, 46, 99, 111, 109>>

\* "/item?id="
ItemPath == <<47, 105, 116, 101, 109, 63, 105, 100, 61>>

\* The anchors of a comment text: without href, and with href "", "#",
\* "reply?x", "user?x", "/f", "h" and "#t".
Anchors ==
  { Absent, Present(<< >>), Present(<<35>>),
    Present(<<114, 101, 112, 108, 121, 63, 120>>),
    Present(<<117, 115, 101, 114, 63, 120>>),
    Present(<<47, 102>>), Present(<<104>>), Present(<<35, 116>>) }

\* A row tr.athing.comtr: whether it has a td.ind img and that image's width
\* attribute, the row's id attribute, the text of its a.hnuser, and the
\* anchors of its .commtext.
Row(img, width, id, hnuser, commtext) ==
  [img |-> img, width |-> width, id |-> id, hnuser |-> hnuser, commtext |-> commtext]


\* The links saveLinks is called with: the pairs ("a", "b") and ("a", "c").
LinkAB == Link(<<97>>, <<97>>, <<98>>)
LinkAC == Link(<<98>>, <<97>>, <<99>>)

LinkUniverse == { LinkAB, LinkAC }

\* The pair ("a", "b") as a later scrape finds it, with the author "c".
LinkABByC == Link(<<99>>, <<97>>, <<98>>)

\* The links of the stores getLinks is called on: "Al" ("a", "b"),
\* "bo" ("a", "c"), "al" ("d", "B") and "Bo" ("d", "b").
QueryLinks ==
  { Link(<<65, 108>>, <<97>>, <<98>>),
    Link(<<98, 111>>, <<97>>, <<99>>),
    Link(<<97, 108>>, <<100>>, <<66>>),
    Link(<<66, 111>>, <<100>>, <<98>>) }

\* Two links of the comment https://news.ycombinator.com/item?id=1, with
\* the hrefs "ab>" and "ab?".
LinkGt == Link(<<97>>, BASE_URL \o ItemPath \o <<49>>, <<97, 98, 62>>)
LinkQm == Link(<<97>>, BASE_URL \o ItemPath \o <<49>>, <<97, 98, 63>>)

\* generateId of every link of the model, computed once.
LinkIds ==
  [l \in LinkUniverse \cup QueryLinks \cup { LinkABByC, LinkGt, LinkQm } |->
     generateId(l.commentUrl, l.extractedLink)]

RECURSIVE SeqsUpTo(_, _)
SeqsUpTo(S, n) ==
  IF n = 0 THEN { << >> }
  ELSE LET shorter == SeqsUpTo(S, n - 1)
       IN  shorter \cup { Append(s, x) : s \in shorter, x \in S }

\* The pages of one top-level row and its anchors.
AnchorPages ==
  { << Row(TRUE, Present(<<48>>), Present(<<49>>), Present(<<97, 108>>), Present(as)) >> :
      as \in SeqsUpTo(Anchors, MaxAnchors) }

\* The rows of the other pages: top-level rows (width "0", "00", "" or
\* none) with and without id, author and comment text, a row without
\* indentation image, and rows of width "40", "4" and "x".
Rows ==
  { Row(TRUE, Present(<<48>>), Present(<<49>>), Present(<<97, 108>>),
        Present(<< Present(<<104>>), Present(<<47, 102>>) >>)),
    Row(TRUE, Present(<<48>>), Present(<<50>>), Present(<<32, 98, 111, 32>>),
        Present(<< Present(<<104>>), Present(<<104>>) >>)),
    Row(TRUE, Present(<<48>>), Absent, Absent, Present(<< Present(<<104>>) >>)),
    Row(TRUE, Present(<<48>>), Present(<< >>), Present(<<32>>),
        Present(<< Present(<<47, 102>>) >>)),
    Row(TRUE, Present(<<48>>), Present(<<49>>), Present(<<97, 108>>), Absent),
    Row(TRUE, Present(<<48, 48>>), Present(<<49>>), Present(<<97, 108>>),
        Present(<< Present(<<104>>) >>)),
    Row(TRUE, Present(<< >>), Present(<<49>>), Present(<<97, 108>>),
        Present(<< Present(<<104>>) >>)),
    Row(TRUE, Absent, Present(<<49>>), Present(<<97, 108>>),
        Present(<< Present(<<104>>) >>)),
    Row(FALSE, Absent, Present(<<49>>), Present(<<97, 108>>),
        Present(<< Present(<<104>>) >>)),
    Row(TRUE, Present(<<52, 48>>), Present(<<49>>), Present(<<97, 108>>),
        Present(<< Present(<<104>>) >>)),
    Row(TRUE, Present(<<52>>), Present(<<49>>), Present(<<97, 108>>),
        Present(<< Present(<<104>>) >>)),
    Row(TRUE, Present(<<120>>), Present(<<49>>), Present(<<97, 108>>),
        Present(<< Present(<<104>>) >>)) }

RowPages == SeqsUpTo(Rows, MaxPageRows)

\* The lists saveLinks is called with, one call at a time.
Batches == SeqsUpTo(LinkUniverse, MaxBatch)

\* The lists of overlapping scrapes: one link, one link repeated, and the two
\* links in both orders.
OverlapBatches ==
  { << LinkAB >>, << LinkAB, LinkAB >>, << LinkAB, LinkAC >>, << LinkAC, LinkAB >> }

\* The lists of the scrapes of a store that holds the pair ("a", "b").
TouchBatches ==
  { << LinkABByC >>, << LinkABByC, LinkAC >>, << LinkAC, LinkAB >> }

\* The lists of the scrapes of a comment with the hrefs "ab>" and "ab?".
IdBatches ==
  { << LinkGt >>, << LinkQm >>, << LinkGt, LinkQm >>, << LinkQm, LinkAB >> }

\* The urls clicked and liked: "b" and "c".
UrlList == << <<98>>, <<99>> >>
Urls == { UrlList[i] : i \in 1..Len(UrlList) }
Visitors == { "v1", "v2" }

\* The urls that are hashed: the clicked and liked ones, and "B".
HashedUrls == UrlList \o << <<66>> >>

hashUrl(url) == CHOOSE i \in 1..Len(HashedUrls) : HashedUrls[i] = url

(* ------------------------------ state ---------------------------------- *)
VARIABLES
  db,        \* committed rows of each table
  tx,        \* per connection: rows written by its open transaction
  pc,        \* per connection: the statement its operation executes next
  call,      \* per connection: arguments and locals of its operation
  clock,     \* wall clock read by new Date()
  started,   \* per operation: number of calls begun
  likeHist,  \* results of the last toggleLike calls that ran one after another
  saveHist,  \* results of the last saveLinks calls that ran one after another
  clickDone, \* per url: number of trackClick calls that returned
  host,      \* the server process: its entry point and how far it has started
  scrape,    \* per trigger: the runScraper invocation it started
  kv,        \* the key-value variant of the store: its entries
  kvcall,    \* per caller: the saveLinks call it runs on the key-value store
  schema,    \* schemaInit, its initialization and the pool's connections in use
  caller,    \* per store operation in flight: its position in withClient
  query,     \* the last read of a page or of counters, and the pages read so far
  job,       \* per caller: the store operation it called and what came of it
  meta,      \* the meta table: per key its value
  req,       \* the last HTTP request handled, its response, and the number handled
  doc,       \* the fetched thread page, the row reached and the links extracted
  player     \* the fishtank page's script: its variables, timers and fetches

\* The state of the callers of the store operations.
siteVars == << host, scrape >>

\* The state of the key-value variant of the store.
kvVars == << kv, kvcall >>

\* The state of the lazily initialized schema guard.
schemaVars == << schema, caller >>

\* The state of the calls of the store operations and of the meta counters.
jobVars == << job, meta, req >>

outside == << siteVars, kvVars, schemaVars, query, jobVars, doc, player >>

vars == << db, tx, pc, call, clock, started, likeHist, saveHist, clickDone, outside >>

Ops == { "toggleLike", "saveLinks", "trackClick" }

Tables == { "links", "clicks", "clicks_daily", "likes", "liked_by" }

EmptyTables == [t \in Tables |-> {}]
EmptyTx == [ins |-> EmptyTables, del |-> EmptyTables]

Key(t, r) ==
  CASE t = "links" -> r.id
    [] t = "clicks" -> r.url_hash
    [] t = "clicks_daily" -> << r.url_hash, r.day >>
    [] t = "likes" -> r.url_hash
    [] t = "liked_by" -> << r.url_hash, r.visitor_id >>

NoCall ==
  [op |-> "none", url |-> << >>, visitorId |-> "", urlHash |-> 0,
   links |-> << >>, i |-> 0, newCount |-> 0, now |-> 0, today |-> 0,
   hasLiked |-> FALSE, liked |-> FALSE, count |-> 0,
   before |-> 0, memberBefore |-> FALSE, rowsBefore |-> 0,
   freshPairs |-> FALSE, freshIds |-> FALSE, solo |-> TRUE, pre |-> EmptyTables, error |-> "none"]

DayOf(t) == t \div 2

Max(a, b) == IF a >= b THEN a ELSE b

Last2(h) == IF Len(h) > 2 THEN Tail(h) ELSE h

Triggers == { "startup", "tick" }

\* The entry points: main.tsx, and the earlier one that starts the framework.
Entries == { "main", "earlier" }

NoResult == [newCount |-> 0, totalCount |-> 0]

NoScrape ==
  [pc |-> "idle", links |-> << >>, newCount |-> 0, failed |-> "none",
   result |-> NoResult, threw |-> FALSE]

\* The process of entry point e before its first statement.
HostAtStart(e) ==
  [entry |-> e, pc |-> "start", emptyAtStart |-> FALSE,
   startupScrape |-> FALSE, ticks |-> 0, error |-> "none"]

SiteInit ==
  /\ host = HostAtStart("main")
  /\ scrape = [t \in Triggers |-> NoScrape]

NoKvCall ==
  [pc |-> "idle", links |-> << >>, i |-> 0, newCount |-> 0, now |-> 0,
   existing |-> {}, currentCount |-> 0]

\* An empty key-value store: no ["links", id], ["by_author", author, id] or
\* ["meta", "count"] entry.
KvInit ==
  /\ kv = [links |-> {}, by_author |-> {}, count |-> << >>, saves |-> 0]
  /\ kvcall = [t \in Triggers |-> NoKvCall]

\* The store operations that call withClient at the same time.
Callers == 1..MaxCallers

\* let schemaInit: Promise<void> | null = null
SchemaInit ==
  /\ schema = [init |-> "null", initPc |-> "none", ddlRuns |-> 0, inUse |-> 0]
  /\ caller = [c \in Callers |-> "idle"]

NoValue == [count |-> 0, counts |-> << >>, liked |-> {}]

\* The script of the page GET /fishtank sends, after DOMContentLoaded: urls
\* is [], so 'Loading sites...' is shown and page 1 of the feed is fetched.
\* The frame has no src; total is the number of distinct urls of the feed.
PlayerAtStart(total) ==
  [phase |-> "fetching", urls |-> << >>, page |-> 1, totalPages |-> 1,
   loading |-> FALSE, currentIndex |-> Num(0), loadTimer |-> 0,
   loadToken |-> 0, skipCount |-> 0, status |-> "Loading sites...",
   frame |-> "blank", timers |-> {}, inflight |-> << >>,
   feedTotal |-> total, clicks |-> 0, advances |-> 0]

\* The thread page as parseHTML returns it, before the loop over its rows.
Fetched(rows) == [rows |-> rows, i |-> 1, results |-> << >>, pc |-> "rows"]

\* No request handled yet.
NoRequest ==
  [route |-> "none", input |-> [kind |-> "absent", url |-> << >>],
   visitorId |-> "", status |-> 0, calls |-> << >>, before |-> EmptyTables,
   body |-> NoValue, handled |-> 0]

\* No store operation called yet.
NoJob == [op |-> "none", args |-> << >>, state |-> "none", statements |-> 0,
          result |-> NoValue]

\* No call in flight, and a meta table without rows.
JobInit ==
  /\ job = [c \in Callers |-> NoJob]
  /\ meta = << >>
  /\ req = NoRequest

NoOptions == [page |-> 1, perPage |-> 1, search |-> << >>, sort |-> "likes", order |-> "desc"]

\* No read yet; scan is the order in which the store returns the links rows
\* while its contents stay the same.
NoQuery(scan) ==
  [scan |-> scan, op |-> "none", options |-> NoOptions,
   res |-> [links |-> << >>, total |-> 0, totalPages |-> 0],
   acc |-> << >>, browsing |-> FALSE, urls |-> << >>, counts |-> << >>,
   params |-> [page |-> Absent, perPage |-> Absent]]

Init ==
  /\ SiteInit
  /\ KvInit
  /\ SchemaInit
  /\ JobInit
  /\ doc = Fetched(<< >>)
  /\ player = PlayerAtStart(0)
  /\ query = NoQuery(<< >>)
  /\ db = EmptyTables
  /\ tx = [p \in Procs |-> EmptyTx]
  /\ pc = [p \in Procs |-> "idle"]
  /\ call = [p \in Procs |-> NoCall]
  /\ clock = 0
  /\ started = [op \in Ops |-> 0]
  /\ likeHist = << >>
  /\ saveHist = << >>
  /\ clickDone = [u \in Urls |-> 0]

(* ------------------- transactions (READ COMMITTED) --------------------- *)
\* Rows a statement of connection p sees.
View(p, t) == (db[t] \ tx[p].del[t]) \cup tx[p].ins[t]

Locks(q, t) == { Key(t, r) : r \in tx[q].ins[t] \cup tx[q].del[t] }

\* Connections whose open transaction makes an INSERT of key k by p wait.
InsertWaitsFor(p, t, k) == { q \in Procs \ {p} : k \in Locks(q, t) }

\* Mutant: UPDATE does not wait for the row lock of an open transaction.
WriteWaitsFor_NoRowLock(p, t, k) == {}

\* Connections whose open transaction makes an UPDATE or DELETE by p of the
\* committed row with key k wait (a row another transaction has inserted
\* but not committed is invisible and is skipped without waiting).
WriteWaitsFor(p, t, k) ==
  { q \in Procs \ {p} : \E r \in tx[q].del[t] : Key(t, r) = k }

\* The overlay of p after replacing rows old by rows new in table t.
Write(p, t, old, new) ==
  [tx[p] EXCEPT !.del[t] = @ \cup (old \cap db[t]),
                !.ins[t] = (@ \ old) \cup new]

Committed(p) == [t \in Tables |-> View(p, t)]

(* ------------------------------ reads ---------------------------------- *)
\* Map.prototype.set
MapSet(m, k, v) == [x \in DOMAIN m \cup {k} |-> IF x = k THEN v ELSE m[x]]

\* SELECT url_hash, total FROM <table> WHERE url_hash = ANY($1)
TotalsOf(table, hashes) == { r \in db[table] : r.url_hash \in hashes }

\* totals.get(hash) || 0
TotalOr0(totals, hash) ==
  IF \E r \in totals : r.url_hash = hash
  THEN (CHOOSE r \in totals : r.url_hash = hash).total
  ELSE 0

\* Mutant: only the urls that have a counter row are set.
RECURSIVE SetCounts_SkipsMissing(_, _, _)
SetCounts_SkipsMissing(counts, urls, totals) ==
  IF Len(urls) = 0 THEN counts
  ELSE SetCounts_SkipsMissing(
         IF \E r \in totals : r.url_hash = hashUrl(Head(urls))
         THEN MapSet(counts, Head(urls), TotalOr0(totals, hashUrl(Head(urls))))
         ELSE counts,
         Tail(urls), totals)

\* urls.forEach((url, index) => counts.set(url, totals.get(hashes[index]) || 0))
RECURSIVE SetCounts(_, _, _)
SetCounts(counts, urls, totals) ==
  IF Len(urls) = 0 THEN counts
  ELSE SetCounts(MapSet(counts, Head(urls), TotalOr0(totals, hashUrl(Head(urls)))),
                 Tail(urls), totals)

getCountsInternal(table, urls) ==
  IF Len(urls) = 0 THEN << >>
  ELSE SetCounts(<< >>, urls,
                 TotalsOf(table, { hashUrl(urls[i]) : i \in 1..Len(urls) }))

getClickCountsInternal(urls) == getCountsInternal("clicks", urls)

getLikeCountsInternal(urls) == getCountsInternal("likes", urls)

getLikeCounts(urls) == getLikeCountsInternal(urls)

getClickCounts(urls) == getClickCountsInternal(urls)

getUserLikes(urls, visitorId) ==
  { u \in { urls[i] : i \in 1..Len(urls) } :
      \E r \in db["liked_by"] :
        r.visitor_id = visitorId /\ r.url_hash = hashUrl(u) }

getTotalCount == Cardinality(db["links"])

(* ------------------------------ getLinks ------------------------------- *)
Min(a, b) == IF a <= b THEN a ELSE b

\* Array.prototype.slice(start, end): a negative index counts from the end.
RelativeIndex(k, len) == IF k < 0 THEN Max(len + k, 0) ELSE Min(k, len)

slice(a, start, end) ==
  LET from == RelativeIndex(start, Len(a))
      to == RelativeIndex(end, Len(a))
  IN  IF from < to THEN SubSeq(a, from + 1, to) ELSE << >>

\* Math.ceil(total / perPage) for perPage >= 1
CeilDiv(total, perPage) == (total + perPage - 1) \div perPage

\* The order of two strings by their character codes: -1, 0 or 1.
RECURSIVE CompareCodes(_, _)
CompareCodes(a, b) ==
  IF Len(a) = 0 /\ Len(b) = 0 THEN 0
  ELSE IF Len(a) = 0 THEN -1
  ELSE IF Len(b) = 0 THEN 1
  ELSE IF a[1] < b[1] THEN -1
  ELSE IF a[1] > b[1] THEN 1
  ELSE CompareCodes(Tail(a), Tail(b))

\* String.prototype.localeCompare on letters: by letter first, and a
\* lower-case letter before its upper-case letter.
localeCompare(a, b) ==
  IF CompareCodes(toLowerCase(a), toLowerCase(b)) # 0
  THEN CompareCodes(toLowerCase(a), toLowerCase(b))
  ELSE -CompareCodes(a, b)

\* result.rows.map((row) => ({ id: row.id, ... }))
toStoredLink(row) ==
  [id |-> row.id, author |-> row.author, commentUrl |-> row.comment_url,
   extractedLink |-> row.extracted_link,
   createdAt |-> row.created_at, updatedAt |-> row.updated_at]

\* Mutant: only the author is searched.
filterBySearch_AuthorOnly(allLinks, search) ==
  IF Len(search) = 0 THEN allLinks
  ELSE LET Test(link) == includes(toLowerCase(link.author), toLowerCase(search))
       IN  SelectSeq(allLinks, Test)

\* if (search) filteredLinks = allLinks.filter(...)
filterBySearch(allLinks, search) ==
  IF Len(search) = 0 THEN allLinks
  ELSE LET searchLower == toLowerCase(search)
           Test(link) ==
             \/ includes(toLowerCase(link.author), searchLower)
             \/ includes(toLowerCase(link.extractedLink), searchLower)
       IN  SelectSeq(allLinks, Test)

\* counts?.get(link.extractedLink) || 0
CountOr0(counts, link) ==
  IF link.extractedLink \in DOMAIN counts THEN counts[link.extractedLink] ELSE 0

\* The comparator handed to filteredLinks.sort.
CompareLinks(a, b, sort, order, clicks, likes) ==
  (IF order = "desc" THEN -1 ELSE 1) *
    (CASE sort = "author" -> localeCompare(a.author, b.author)
       [] sort = "clicks" -> CountOr0(clicks, a) - CountOr0(clicks, b)
       [] OTHER -> CountOr0(likes, a) - CountOr0(likes, b))

Reversed(list) == [i \in 1..Len(list) |-> list[Len(list) + 1 - i]]

\* The ascending sort, each link put after the links that are not after it.
RECURSIVE SortedAscending(_, _, _, _)
SortedAscending(list, sort, clicks, likes) ==
  IF Len(list) = 0 THEN << >>
  ELSE LET front == SortedAscending(SubSeq(list, 1, Len(list) - 1), sort, clicks, likes)
           x == list[Len(list)]
           k == Cardinality({ i \in 1..Len(front) :
                  CompareLinks(front[i], x, sort, "asc", clicks, likes) <= 0 })
       IN  SubSeq(front, 1, k) \o << x >> \o SubSeq(front, k + 1, Len(front))

\* Mutant: descending order is the ascending order reversed.
SortedLinks_ReversedForDesc(list, sort, order, clicks, likes) ==
  IF order = "desc"
  THEN Reversed(SortedAscending(list, sort, clicks, likes))
  ELSE SortedAscending(list, sort, clicks, likes)

\* Array.prototype.sort with the comparator: a stable sort, each link put
\* after the links that the comparator does not put after it.
RECURSIVE SortedLinks(_, _, _, _, _)
SortedLinks(list, sort, order, clicks, likes) ==
  IF Len(list) = 0 THEN << >>
  ELSE LET front == SortedLinks(SubSeq(list, 1, Len(list) - 1),
                                sort, order, clicks, likes)
           x == list[Len(list)]
           k == Cardinality({ i \in 1..Len(front) :
                  CompareLinks(front[i], x, sort, order, clicks, likes) <= 0 })
       IN  SubSeq(front, 1, k) \o << x >> \o SubSeq(front, k + 1, Len(front))

\* Mutant: the offset of page n is n * perPage.
PageOffset_FromPage(page, perPage) == page * perPage

\* const offset = (page - 1) * perPage
PageOffset(page, perPage) == (page - 1) * perPage

\* The links that match the search, sorted: filteredLinks after the sort.
\* rows is the result of the SELECT, in the order the store returns it.
FilteredSorted(options, rows) ==
  LET allLinks == [i \in 1..Len(rows) |-> toStoredLink(rows[i])]
      filteredLinks == filterBySearch(allLinks, options.search)
      urls == [i \in 1..Len(filteredLinks) |-> filteredLinks[i].extractedLink]
      clicks == IF options.sort = "clicks" THEN getClickCountsInternal(urls) ELSE << >>
      likes == IF options.sort = "likes" THEN getLikeCountsInternal(urls) ELSE << >>
  IN  SortedLinks(filteredLinks, options.sort, options.order, clicks, likes)

\* getLinks(options) without clickCounts and likeCounts, as its callers call it.
getLinks(options, rows) ==
  LET filteredLinks == FilteredSorted(options, rows)
      total == Len(filteredLinks)
      offset == PageOffset(options.page, options.perPage)
  IN  [links |-> slice(filteredLinks, offset, offset + options.perPage),
       total |-> total,
       totalPages |-> CeilDiv(total, options.perPage)]

\* No link of the list has its (commentUrl, extractedLink) pair / its id stored.
NoPairStored(links) ==
  \A i \in 1..Len(links) : \A r \in db["links"] :
    ~(r.comment_url = links[i].commentUrl /\ r.extracted_link = links[i].extractedLink)

NoIdStored(links) ==
  \A i \in 1..Len(links) : \A r \in db["links"] : r.id # LinkIds[links[i]]

(* ------------------------- starting a call ----------------------------- *)
Others(p) == Procs \ {p}

\* pool.connect() hands out the first free connection.
FirstFree(p) ==
  /\ pc[p] = "idle"
  /\ \A q \in Procs : q < p => pc[q] # "idle"

Alone(p) == \A q \in Others(p) : pc[q] = "idle"

CallsBegun == started["toggleLike"] + started["saveLinks"] + started["trackClick"]

\* What is remembered of the store as a call found it is kept only while the
\* call runs alone.
Overlapped(c) ==
  [c EXCEPT !.solo = FALSE, !.before = 0, !.memberBefore = FALSE,
            !.rowsBefore = 0, !.freshPairs = FALSE, !.freshIds = FALSE,
            !.pre = EmptyTables]

\* Connection p starts call c; the calls in flight no longer run alone.
MarkOverlap(p, c) ==
  [q \in Procs |->
     IF q = p THEN (IF Alone(p) THEN c ELSE Overlapped(c))
     ELSE IF pc[q] = "idle" THEN call[q]
     ELSE Overlapped(call[q])]

\* The values new Date() can return: the wall clock never runs backwards.
Now == clock..MaxClock

(* ------------------------ failure and rollback ------------------------- *)
TryPcs ==
  { "tl_ensure", "tl_select", "tl_delete", "tl_dec", "tl_insert", "tl_inc",
    "tl_commit", "sl_insert", "sl_commit", "tc_total", "tc_daily", "tc_commit" }

\* Mutant: the catch block commits instead of rolling back.
RolledBack_KeepsWrites(p) == tx[p]

\* catch (error) { ROLLBACK; throw error }: what the open transaction of p
\* leaves of its writes.
RolledBack(p) == EmptyTx

\* p's statement raises error err: the catch block rolls back and rethrows.
Raise(p, err) ==
  /\ db' = [t \in Tables |-> (db[t] \ RolledBack(p).del[t]) \cup RolledBack(p).ins[t]]
  /\ tx' = [tx EXCEPT ![p] = EmptyTx]
  /\ pc' = [pc EXCEPT ![p] = "raised"]
  /\ call' = [call EXCEPT ![p].error = err]

\* A statement inside the try block fails (store error, lost connection).
StatementFails(p) ==
  /\ pc[p] \in TryPcs
  /\ Raise(p, "statement_failed")
  /\ UNCHANGED << outside, clock, started, likeHist, saveHist, clickDone >>

\* The connections whose open transactions p's next statement waits for.
LinkWaitsFor(p, link) ==
  { q \in Procs \ {p} :
      \E r \in tx[q].ins["links"] \cup tx[q].del["links"] :
        \/ r.id = LinkIds[link]
        \/ r.comment_url = link.commentUrl /\ r.extracted_link = link.extractedLink }

WaitsFor(p) ==
  CASE pc[p] = "tl_ensure" -> InsertWaitsFor(p, "likes", call[p].urlHash)
    [] pc[p] = "tl_delete" ->
         WriteWaitsFor(p, "liked_by", << call[p].urlHash, call[p].visitorId >>)
    [] pc[p] = "tl_insert" ->
         InsertWaitsFor(p, "liked_by", << call[p].urlHash, call[p].visitorId >>)
    [] pc[p] \in { "tl_dec", "tl_inc" } -> WriteWaitsFor(p, "likes", call[p].urlHash)
    [] pc[p] = "sl_insert" -> LinkWaitsFor(p, call[p].links[call[p].i])
    [] pc[p] = "tc_total" -> InsertWaitsFor(p, "clicks", call[p].urlHash)
    [] pc[p] = "tc_daily" ->
         InsertWaitsFor(p, "clicks_daily", << call[p].urlHash, call[p].today >>)
    [] OTHER -> {}

RECURSIVE WaitClosure(_, _)
WaitClosure(S, n) ==
  IF n = 0 THEN S
  ELSE WaitClosure(S \cup UNION { WaitsFor(q) : q \in S }, n - 1)

\* p waits in a cycle of waiting transactions: the store fails its statement.
DeadlockDetected(p) ==
  /\ pc[p] \in TryPcs
  /\ p \in WaitClosure(WaitsFor(p), PoolSize)
  /\ Raise(p, "deadlock_detected")
  /\ UNCHANGED << outside, clock, started, likeHist, saveHist, clickDone >>

\* The error reaches the caller; the connection is released.
Release(p) ==
  /\ pc[p] = "raised"
  /\ pc' = [pc EXCEPT ![p] = "idle"]
  /\ call' = [call EXCEPT ![p] = NoCall]
  /\ UNCHANGED << outside, db, tx, clock, started, likeHist, saveHist, clickDone >>

(* ----------------------------- toggleLike ------------------------------ *)
\* toggleLike(url, visitorId): withClient, hashUrl, BEGIN.
toggleLikeStart(p, url, visitorId, oneAtATime) ==
  /\ FirstFree(p)
  /\ started["toggleLike"] < MaxToggles
  /\ oneAtATime => Alone(p)
  /\ started' = [started EXCEPT !["toggleLike"] = @ + 1]
  /\ pc' = [pc EXCEPT ![p] = "tl_ensure"]
  /\ call' = MarkOverlap(p,
       [NoCall EXCEPT !.op = "toggleLike", !.url = url,
                      !.visitorId = visitorId, !.urlHash = hashUrl(url),
                      !.before = getLikeCounts(<<url>>)[url],
                      !.memberBefore = (url \in getUserLikes(<<url>>, visitorId)),
                      !.pre = db])
  /\ UNCHANGED << outside, db, tx, clock, likeHist, saveHist, clickDone >>

\* INSERT INTO likes (url_hash, total) VALUES ($1, 0) ON CONFLICT DO NOTHING
EnsureLikesRow(p) ==
  IF \E r \in View(p, "likes") : r.url_hash = call[p].urlHash
  THEN tx[p]
  ELSE Write(p, "likes", {}, { [url_hash |-> call[p].urlHash, total |-> 0] })

toggleLikeEnsure(p) ==
  /\ pc[p] = "tl_ensure"
  /\ WaitsFor(p) = {}
  /\ tx' = [tx EXCEPT ![p] = EnsureLikesRow(p)]
  /\ pc' = [pc EXCEPT ![p] = "tl_select"]
  /\ UNCHANGED << outside, db, call, clock, started, likeHist, saveHist, clickDone >>

\* SELECT TRUE AS exists FROM liked_by WHERE url_hash = $1 AND visitor_id = $2
MembershipRows(p) ==
  { r \in View(p, "liked_by") :
      r.url_hash = call[p].urlHash /\ r.visitor_id = call[p].visitorId }

toggleLikeSelect(p) ==
  /\ pc[p] = "tl_select"
  /\ call' = [call EXCEPT ![p].hasLiked = (MembershipRows(p) # {})]
  /\ pc' = [pc EXCEPT ![p] =
              IF MembershipRows(p) # {} THEN "tl_delete" ELSE "tl_insert"]
  /\ UNCHANGED << outside, db, tx, clock, started, likeHist, saveHist, clickDone >>

\* DELETE FROM liked_by WHERE url_hash = $1 AND visitor_id = $2
toggleLikeDelete(p) ==
  /\ pc[p] = "tl_delete"
  /\ WaitsFor(p) = {}
  /\ tx' = [tx EXCEPT ![p] = Write(p, "liked_by", MembershipRows(p), {})]
  /\ pc' = [pc EXCEPT ![p] = "tl_dec"]
  /\ UNCHANGED << outside, db, call, clock, started, likeHist, saveHist, clickDone >>

LikesRows(p) == { r \in View(p, "likes") : r.url_hash = call[p].urlHash }

\* Mutant: the decrement takes two.
DecrementedTotal_ByTwo(total) == Max(total - 2, 0)

\* Mutant: the decrement without GREATEST(..., 0).
DecrementedTotal_Unclamped(total) == total - 1

\* UPDATE likes SET total = GREATEST(total - 1, 0) ... RETURNING total
DecrementedTotal(total) == Max(total - 1, 0)

toggleLikeDecrement(p) ==
  /\ pc[p] = "tl_dec"
  /\ WaitsFor(p) = {}
  /\ LET new == { [r EXCEPT !.total = DecrementedTotal(r.total)] : r \in LikesRows(p) }
     IN  /\ tx' = [tx EXCEPT ![p] = Write(p, "likes", LikesRows(p), new)]
         /\ call' = [call EXCEPT ![p].liked = FALSE,
                                 ![p].count = IF new = {} THEN 0
                                              ELSE (CHOOSE r \in new : TRUE).total]
  /\ pc' = [pc EXCEPT ![p] = "tl_commit"]
  /\ UNCHANGED << outside, db, clock, started, likeHist, saveHist, clickDone >>

\* INSERT INTO liked_by (url_hash, visitor_id) VALUES ($1, $2)
\* (a second row with the same primary key is a unique violation).
toggleLikeInsert(p) ==
  /\ pc[p] = "tl_insert"
  /\ WaitsFor(p) = {}
  /\ IF MembershipRows(p) # {}
     THEN Raise(p, "unique_violation")
     ELSE /\ tx' = [tx EXCEPT ![p] =
                 Write(p, "liked_by", {},
                       { [url_hash |-> call[p].urlHash,
                          visitor_id |-> call[p].visitorId] })]
          /\ pc' = [pc EXCEPT ![p] = "tl_inc"]
          /\ UNCHANGED << outside, db, call >>
  /\ UNCHANGED << outside, clock, started, likeHist, saveHist, clickDone >>

\* Mutant: the increment of the total is left out.
IncrementedTotal_Stale(total) == total

\* UPDATE likes SET total = total + 1 WHERE url_hash = $1 RETURNING total
IncrementedTotal(total) == total + 1

toggleLikeIncrement(p) ==
  /\ pc[p] = "tl_inc"
  /\ WaitsFor(p) = {}
  /\ LET new == { [r EXCEPT !.total = IncrementedTotal(r.total)] : r \in LikesRows(p) }
     IN  /\ tx' = [tx EXCEPT ![p] = Write(p, "likes", LikesRows(p), new)]
         /\ call' = [call EXCEPT ![p].liked = TRUE,
                                 ![p].count = IF new = {} THEN 1
                                              ELSE (CHOOSE r \in new : TRUE).total]
  /\ pc' = [pc EXCEPT ![p] = "tl_commit"]
  /\ UNCHANGED << outside, db, clock, started, likeHist, saveHist, clickDone >>

\* COMMIT; return { liked, count }; the connection is released.
toggleLikeCommit(p) ==
  /\ pc[p] = "tl_commit"
  /\ db' = Committed(p)
  /\ tx' = [tx EXCEPT ![p] = EmptyTx]
  /\ likeHist' = IF call[p].solo
                  THEN Last2(Append(likeHist,
                         [url |-> call[p].url, visitorId |-> call[p].visitorId,
                          liked |-> call[p].liked, count |-> call[p].count,
                          before |-> call[p].before,
                          memberBefore |-> call[p].memberBefore]))
                  ELSE << >>
  /\ pc' = [pc EXCEPT ![p] = "idle"]
  /\ call' = [call EXCEPT ![p] = NoCall]
  /\ UNCHANGED << outside, clock, started, saveHist, clickDone >>

(* ------------------------------ saveLinks ------------------------------ *)
\* saveLinks([]): returns 0 without touching the store.
saveLinksEmpty(oneAtATime) ==
  /\ started["saveLinks"] < MaxSaves
  /\ oneAtATime => \A q \in Procs : pc[q] = "idle"
  /\ started' = [started EXCEPT !["saveLinks"] = @ + 1]
  /\ saveHist' = IF \A q \in Procs : pc[q] = "idle"
                  THEN Last2(Append(saveHist,
                         [links |-> << >>, ret |-> 0,
                          freshPairs |-> TRUE, freshIds |-> TRUE,
                          rowsBefore |-> getTotalCount,
                          rowsAfter |-> getTotalCount]))
                  ELSE << >>
  /\ UNCHANGED << outside, db, tx, pc, call, clock, likeHist, clickDone >>

\* saveLinks(links), links non-empty: withClient, now = new Date(), BEGIN.
saveLinksStart(p, links, now, oneAtATime) ==
  /\ Len(links) > 0
  /\ FirstFree(p)
  /\ started["saveLinks"] < MaxSaves
  /\ oneAtATime => Alone(p)
  /\ started' = [started EXCEPT !["saveLinks"] = @ + 1]
  /\ pc' = [pc EXCEPT ![p] = "sl_insert"]
  /\ call' = MarkOverlap(p,
       [NoCall EXCEPT !.op = "saveLinks", !.links = links, !.i = 1,
                      !.newCount = 0, !.now = now,
                      !.rowsBefore = getTotalCount,
                      !.freshPairs = NoPairStored(links),
                      !.freshIds = NoIdStored(links), !.pre = db])
  /\ clock' = now
  /\ UNCHANGED << outside, db, tx, likeHist, saveHist, clickDone >>

\* Mutant: the conflicting row takes every inserted value.
UpsertLink_ReplacesRow(p, link, now) ==
  LET existing == { r \in View(p, "links") : r.id = LinkIds[link] }
      inserted == [id |-> LinkIds[link], author |-> link.author,
                   comment_url |-> link.commentUrl,
                   extracted_link |-> link.extractedLink,
                   created_at |-> now, updated_at |-> now]
  IN  [outcome |-> IF existing # {} THEN "updated" ELSE "inserted",
       tx |-> Write(p, "links", existing, { inserted })]

\* Mutant: a plain INSERT into a table without unique constraints.
UpsertLink_NoConflictCheck(p, link, now) ==
  [outcome |-> "inserted",
   tx |-> Write(p, "links", {},
                { [id |-> LinkIds[link], author |-> link.author,
                   comment_url |-> link.commentUrl,
                   extracted_link |-> link.extractedLink,
                   created_at |-> now, updated_at |-> now] })]

\* Mutant: the conflicting row is touched but reported as inserted.
UpsertLink_AlwaysReportsInserted(p, link, now) ==
  LET existing == { r \in View(p, "links") : r.id = LinkIds[link] }
  IN  [outcome |-> "inserted",
       tx |-> IF existing # {}
              THEN Write(p, "links", existing,
                         { [r EXCEPT !.updated_at = now] : r \in existing })
              ELSE Write(p, "links", {},
                         { [id |-> LinkIds[link], author |-> link.author,
                            comment_url |-> link.commentUrl,
                            extracted_link |-> link.extractedLink,
                            created_at |-> now, updated_at |-> now] })]

\* Mutant: the (xmax = 0) test is inverted.
UpsertLink_InvertedXmax(p, link, now) ==
  LET existing == { r \in View(p, "links") : r.id = LinkIds[link] }
  IN  IF existing # {}
      THEN [outcome |-> "inserted",
            tx |-> Write(p, "links", existing,
                         { [r EXCEPT !.updated_at = now] : r \in existing })]
      ELSE [outcome |-> "updated",
            tx |-> Write(p, "links", {},
                         { [id |-> LinkIds[link], author |-> link.author,
                            comment_url |-> link.commentUrl,
                            extracted_link |-> link.extractedLink,
                            created_at |-> now, updated_at |-> now] })]

\* INSERT INTO links (...) VALUES (...) ON CONFLICT (id) DO UPDATE
\*   SET updated_at = EXCLUDED.updated_at RETURNING (xmax = 0) AS inserted
\* for one link: "inserted", "updated", or "unique_violation" of the index on
\* (comment_url, extracted_link), and the transaction's rows afterwards.
UpsertLink(p, link, now) ==
  LET id == LinkIds[link]
      existing == { r \in View(p, "links") : r.id = id }
      samePair == { r \in View(p, "links") :
                      /\ r.comment_url = link.commentUrl
                      /\ r.extracted_link = link.extractedLink }
  IN  IF existing # {}
      THEN [outcome |-> "updated",
            tx |-> Write(p, "links", existing,
                         { [r EXCEPT !.updated_at = now] : r \in existing })]
      ELSE IF samePair # {}
      THEN [outcome |-> "unique_violation", tx |-> tx[p]]
      ELSE [outcome |-> "inserted",
            tx |-> Write(p, "links", {},
                         { [id |-> id, author |-> link.author,
                            comment_url |-> link.commentUrl,
                            extracted_link |-> link.extractedLink,
                            created_at |-> now, updated_at |-> now] })]

\* One iteration of the loop over links.
saveLinksInsert(p) ==
  /\ pc[p] = "sl_insert"
  /\ WaitsFor(p) = {}
  /\ LET res == UpsertLink(p, call[p].links[call[p].i], call[p].now)
     IN  IF res.outcome = "unique_violation"
         THEN Raise(p, "unique_violation")
         ELSE /\ tx' = [tx EXCEPT ![p] = res.tx]
              /\ call' = [call EXCEPT
                   ![p].newCount = IF res.outcome = "inserted" THEN @ + 1 ELSE @,
                   ![p].i = @ + 1]
              /\ pc' = [pc EXCEPT ![p] =
                          IF call[p].i = Len(call[p].links)
                          THEN "sl_commit" ELSE "sl_insert"]
              /\ UNCHANGED db
  /\ UNCHANGED << outside, clock, started, likeHist, saveHist, clickDone >>

\* COMMIT; return newCount; the connection is released.
saveLinksCommit(p) ==
  /\ pc[p] = "sl_commit"
  /\ db' = Committed(p)
  /\ tx' = [tx EXCEPT ![p] = EmptyTx]
  /\ saveHist' = IF call[p].solo
                  THEN Last2(Append(saveHist,
                         [links |-> call[p].links, ret |-> call[p].newCount,
                          freshPairs |-> call[p].freshPairs,
                          freshIds |-> call[p].freshIds,
                          rowsBefore |-> call[p].rowsBefore,
                          rowsAfter |-> Cardinality(Committed(p)["links"])]))
                  ELSE << >>
  /\ pc' = [pc EXCEPT ![p] = "idle"]
  /\ call' = [call EXCEPT ![p] = NoCall]
  /\ UNCHANGED << outside, clock, started, likeHist, clickDone >>

saveLinksStep(p) ==
  \/ saveLinksInsert(p)
  \/ saveLinksCommit(p)

(* ------------------------------ trackClick ----------------------------- *)
\* trackClick(url): withClient, hashUrl, today, BEGIN.
trackClickStart(p, url, now, oneAtATime) ==
  /\ FirstFree(p)
  /\ started["trackClick"] < MaxClicks
  /\ oneAtATime => Alone(p)
  /\ started' = [started EXCEPT !["trackClick"] = @ + 1]
  /\ pc' = [pc EXCEPT ![p] = "tc_total"]
  /\ call' = MarkOverlap(p,
       [NoCall EXCEPT !.op = "trackClick", !.url = url,
                      !.urlHash = hashUrl(url), !.today = DayOf(now),
                      !.pre = db])
  /\ clock' = now
  /\ UNCHANGED << outside, db, tx, likeHist, saveHist, clickDone >>

\* Mutant: the conflicting row is overwritten instead of incremented.
UpsertClicks_Overwrites(p) ==
  LET existing == { r \in View(p, "clicks") : r.url_hash = call[p].urlHash }
  IN  Write(p, "clicks", existing,
            { [url_hash |-> call[p].urlHash, url |-> call[p].url, total |-> 1] })

\* INSERT INTO clicks (url_hash, url, total) VALUES ($1, $2, 1)
\*   ON CONFLICT (url_hash) DO UPDATE SET total = clicks.total + 1, url = ...
UpsertClicks(p) ==
  LET existing == { r \in View(p, "clicks") : r.url_hash = call[p].urlHash }
  IN  IF existing # {}
      THEN Write(p, "clicks", existing,
                 { [r EXCEPT !.total = @ + 1, !.url = call[p].url] : r \in existing })
      ELSE Write(p, "clicks", {},
                 { [url_hash |-> call[p].urlHash, url |-> call[p].url, total |-> 1] })

trackClickTotal(p) ==
  /\ pc[p] = "tc_total"
  /\ WaitsFor(p) = {}
  /\ tx' = [tx EXCEPT ![p] = UpsertClicks(p)]
  /\ pc' = [pc EXCEPT ![p] = "tc_daily"]
  /\ UNCHANGED << outside, db, call, clock, started, likeHist, saveHist, clickDone >>

\* Mutant: the conflicting daily row is set back to 1.
UpsertClicksDaily_Overwrites(p) ==
  LET existing == { r \in View(p, "clicks_daily") :
                      r.url_hash = call[p].urlHash /\ r.day = call[p].today }
  IN  Write(p, "clicks_daily", existing,
            { [url_hash |-> call[p].urlHash, day |-> call[p].today, count |-> 1] })

\* INSERT INTO clicks_daily (url_hash, day, count) VALUES ($1, $2, 1)
\*   ON CONFLICT (url_hash, day) DO UPDATE SET count = clicks_daily.count + 1
UpsertClicksDaily(p) ==
  LET existing == { r \in View(p, "clicks_daily") :
                      r.url_hash = call[p].urlHash /\ r.day = call[p].today }
  IN  IF existing # {}
      THEN Write(p, "clicks_daily", existing,
                 { [r EXCEPT !.count = @ + 1] : r \in existing })
      ELSE Write(p, "clicks_daily", {},
                 { [url_hash |-> call[p].urlHash, day |-> call[p].today, count |-> 1] })

trackClickDaily(p) ==
  /\ pc[p] = "tc_daily"
  /\ WaitsFor(p) = {}
  /\ tx' = [tx EXCEPT ![p] = UpsertClicksDaily(p)]
  /\ pc' = [pc EXCEPT ![p] = "tc_commit"]
  /\ UNCHANGED << outside, db, call, clock, started, likeHist, saveHist, clickDone >>

\* COMMIT; the connection is released.
trackClickCommit(p) ==
  /\ pc[p] = "tc_commit"
  /\ db' = Committed(p)
  /\ tx' = [tx EXCEPT ![p] = EmptyTx]
  /\ clickDone' = [clickDone EXCEPT ![call[p].url] = @ + 1]
  /\ pc' = [pc EXCEPT ![p] = "idle"]
  /\ call' = [call EXCEPT ![p] = NoCall]
  /\ UNCHANGED << outside, clock, started, likeHist, saveHist >>

trackClickStep(p) ==
  \/ trackClickTotal(p)
  \/ trackClickDaily(p)
  \/ trackClickCommit(p)

toggleLikeStep(p) ==
  \/ toggleLikeEnsure(p)
  \/ toggleLikeSelect(p)
  \/ toggleLikeDelete(p)
  \/ toggleLikeDecrement(p)
  \/ toggleLikeInsert(p)
  \/ toggleLikeIncrement(p)
  \/ toggleLikeCommit(p)

Ending(p) ==
  \/ StatementFails(p)
  \/ Release(p)

(* ------------------------------ runScraper ----------------------------- *)
storeVars == << tx, pc, call, started, likeHist, saveHist, clickDone >>

\* What the server process and its scrapes leave alone.
besideSite == << storeVars, kvVars, schemaVars, query, jobVars, doc, player >>

StoredRow(link, now) ==
  [id |-> LinkIds[link], author |-> link.author,
   comment_url |-> link.commentUrl, extracted_link |-> link.extractedLink,
   created_at |-> now, updated_at |-> now]

\* saveLinks(links) as its caller sees it when it commits: the links rows
\* after the loop over links, and the newCount it returns.
RECURSIVE SaveAll(_, _, _)
SaveAll(rows, links, now) ==
  IF Len(links) = 0 THEN [rows |-> rows, newCount |-> 0]
  ELSE LET link == Head(links)
           existing == { r \in rows : r.id = LinkIds[link] }
           next == IF existing # {}
                   THEN (rows \ existing)
                          \cup { [r EXCEPT !.updated_at = now] : r \in existing }
                   ELSE rows \cup { StoredRow(link, now) }
           rest == SaveAll(next, Tail(links), now)
       IN  [rows |-> rest.rows,
            newCount |-> rest.newCount + (IF existing = {} THEN 1 ELSE 0)]

\* runScraper() is called: the try block is entered.
Scraping == [NoScrape EXCEPT !.pc = "fetch"]

\* Mutant: the catch block rethrows.
runScraperCatch_Rethrows(t, what) ==
  [scrape[t] EXCEPT !.pc = "returned", !.failed = what, !.threw = TRUE]

\* catch (error) { console.error(...); return { newCount: 0, totalCount: 0 } }
runScraperCatch(t, what) ==
  [scrape[t] EXCEPT !.pc = "returned", !.failed = what, !.result = NoResult]

\* const links = await scrapeHnComments(POST_ID): the fetch rejects, the
\* response is not ok, or the page yields a list of links.
runScraperFetch(t) ==
  /\ scrape[t].pc = "fetch"
  /\ \/ \E what \in { "network", "status" } :
          scrape' = [scrape EXCEPT ![t] = runScraperCatch(t, what)]
     \/ \E links \in Batches :
          scrape' = [scrape EXCEPT ![t].pc = "save", ![t].links = links]
  /\ UNCHANGED << host, db, clock, besideSite >>

\* const newCount = await saveLinks(links)
runScraperSave(t) ==
  /\ scrape[t].pc = "save"
  /\ \/ /\ scrape' = [scrape EXCEPT ![t] = runScraperCatch(t, "saveLinks")]
        /\ UNCHANGED << db, clock >>
     \/ \E now \in Now :
          LET saved == SaveAll(db["links"], scrape[t].links, now)
          IN  /\ db' = [db EXCEPT !["links"] = saved.rows]
              /\ clock' = now
              /\ scrape' = [scrape EXCEPT ![t].pc = "count",
                                          ![t].newCount = saved.newCount]
  /\ UNCHANGED << host, besideSite >>

\* const totalCount = await getTotalCount(); return { newCount, totalCount }
runScraperCount(t) ==
  /\ scrape[t].pc = "count"
  /\ \/ scrape' = [scrape EXCEPT ![t] = runScraperCatch(t, "getTotalCount")]
     \/ scrape' = [scrape EXCEPT
                     ![t].pc = "returned",
                     ![t].result = [newCount |-> scrape[t].newCount,
                                    totalCount |-> getTotalCount]]
  /\ UNCHANGED << host, db, clock, besideSite >>

runScraperStep(t) ==
  \/ runScraperFetch(t)
  \/ runScraperSave(t)
  \/ runScraperCount(t)

(* --------------------------- the entry points -------------------------- *)
\* main.tsx: const count = await getTotalCount(); if (count === 0)
\* runScraper().catch(...); then Deno.cron(...) and Deno.serve(...).
\* A rejected top-level await ends the process.
StartMain ==
  /\ host.pc = "start"
  /\ host.entry = "main"
  /\ \/ /\ host' = [host EXCEPT !.pc = "crashed", !.error = "getTotalCount"]
        /\ UNCHANGED scrape
     \/ /\ host' = [host EXCEPT !.pc = "serving",
                                 !.emptyAtStart = (getTotalCount = 0),
                                 !.startupScrape = (getTotalCount = 0)]
        /\ scrape' = IF getTotalCount = 0
                      THEN [scrape EXCEPT !["startup"] = Scraping]
                      ELSE scrape
  /\ UNCHANGED << db, clock, besideSite >>

\* The earlier entry point: await runScraper(); then Deno.cron(...) and start.
StartEarlier ==
  /\ host.pc = "start"
  /\ host.entry = "earlier"
  /\ host' = [host EXCEPT !.pc = "awaiting",
                          !.emptyAtStart = (getTotalCount = 0),
                          !.startupScrape = TRUE]
  /\ scrape' = [scrape EXCEPT !["startup"] = Scraping]
  /\ UNCHANGED << db, clock, besideSite >>

\* The awaited startup scrape has returned or thrown.
EarlierResumes ==
  /\ host.pc = "awaiting"
  /\ scrape["startup"].pc = "returned"
  /\ host' = IF scrape["startup"].threw
             THEN [host EXCEPT !.pc = "crashed", !.error = "runScraper"]
             ELSE [host EXCEPT !.pc = "serving"]
  /\ UNCHANGED << scrape, db, clock, besideSite >>

\* Deno.cron("scrape-hn", "0 * * * *", ...): the handler runs at the hour
\* unless its previous run has not ended.
CronTick ==
  /\ host.pc = "serving"
  /\ host.ticks < MaxTicks
  /\ scrape["tick"].pc \in { "idle", "returned" }
  /\ host' = [host EXCEPT !.ticks = @ + 1]
  /\ scrape' = [scrape EXCEPT !["tick"] = Scraping]
  /\ UNCHANGED << db, clock, besideSite >>

(* ------------------ the key-value variant of the store ----------------- *)
besideKv == << db, storeVars, siteVars, schemaVars, query, jobVars, doc, player >>

\* result.value || 0
KvValueOr0(entry) == IF entry = << >> THEN 0 ELSE entry[1]

\* getTotalCount(): kv.get(["meta", "count"]).value || 0
kvGetTotalCount == KvValueOr0(kv.count)

kvStoredLink(link, now) ==
  [id |-> generateId(link.commentUrl, link.extractedLink),
   author |-> link.author, commentUrl |-> link.commentUrl,
   extractedLink |-> link.extractedLink, createdAt |-> now, updatedAt |-> now]

\* The pc of a call after the body of the loop for its link i.
KvAfterLink(c) == IF c.i = Len(c.links) THEN "count_get" ELSE "get"

\* saveLinks(links): openKv(), newCount = 0, now = new Date().
kvSaveLinksStart(t, links, now) ==
  /\ kvcall[t].pc = "idle"
  /\ kv.saves < MaxKvSaves
  /\ kv' = [kv EXCEPT !.saves = @ + 1]
  /\ clock' = now
  /\ kvcall' = [kvcall EXCEPT ![t] =
       [NoKvCall EXCEPT !.pc = IF Len(links) = 0 THEN "count_get" ELSE "get",
                        !.links = links, !.i = 1, !.now = now]]
  /\ UNCHANGED << besideKv >>

\* const existing = await kv.get(["links", id])
kvSaveLinksGet(t) ==
  /\ kvcall[t].pc = "get"
  /\ LET c == kvcall[t]
         link == c.links[c.i]
         id == generateId(link.commentUrl, link.extractedLink)
         existing == { r \in kv.links : r.id = id }
     IN  kvcall' = [kvcall EXCEPT
           ![t].existing = existing,
           ![t].pc = IF existing # {} THEN "set_update" ELSE "set_insert"]
  /\ UNCHANGED << kv, clock, besideKv >>

\* kv.set(["links", id], { ...existing.value, updatedAt: now })
KvUpdated(t) ==
  { r \in kv.links : \A e \in kvcall[t].existing : r.id # e.id }
    \cup { [r EXCEPT !.updatedAt = kvcall[t].now] : r \in kvcall[t].existing }

kvSaveLinksUpdate(t) ==
  /\ kvcall[t].pc = "set_update"
  /\ kv' = [kv EXCEPT !.links = KvUpdated(t)]
  /\ kvcall' = [kvcall EXCEPT ![t].pc = KvAfterLink(kvcall[t]),
                               ![t].i = @ + 1, ![t].existing = {}]
  /\ UNCHANGED << clock, besideKv >>

\* kv.set(["links", id], storedLink)
kvSaveLinksInsert(t) ==
  /\ kvcall[t].pc = "set_insert"
  /\ LET c == kvcall[t]
         row == kvStoredLink(c.links[c.i], c.now)
     IN  kv' = [kv EXCEPT !.links = { r \in @ : r.id # row.id } \cup { row }]
  /\ kvcall' = [kvcall EXCEPT ![t].pc = "set_index"]
  /\ UNCHANGED << clock, besideKv >>

\* kv.set(["by_author", link.author.toLowerCase(), id], id); newCount++
kvSaveLinksIndex(t) ==
  /\ kvcall[t].pc = "set_index"
  /\ LET c == kvcall[t]
         link == c.links[c.i]
     IN  kv' = [kv EXCEPT !.by_author =
                  @ \cup { << toLowerCase(link.author),
                             generateId(link.commentUrl, link.extractedLink) >> }]
  /\ kvcall' = [kvcall EXCEPT ![t].pc = KvAfterLink(kvcall[t]),
                               ![t].i = @ + 1, ![t].newCount = @ + 1]
  /\ UNCHANGED << clock, besideKv >>

\* const countResult = await kv.get(["meta", "count"])
kvSaveLinksCountGet(t) ==
  /\ kvcall[t].pc = "count_get"
  /\ kvcall' = [kvcall EXCEPT ![t].currentCount = KvValueOr0(kv.count),
                               ![t].pc = "count_set"]
  /\ UNCHANGED << kv, clock, besideKv >>

\* await kv.set(["meta", "count"], currentCount + newCount); return newCount
kvSaveLinksCountSet(t) ==
  /\ kvcall[t].pc = "count_set"
  /\ kv' = [kv EXCEPT !.count = << kvcall[t].currentCount + kvcall[t].newCount >>]
  /\ kvcall' = [kvcall EXCEPT ![t] = NoKvCall]
  /\ UNCHANGED << clock, besideKv >>

kvSaveLinksStep(t) ==
  \/ kvSaveLinksGet(t)
  \/ kvSaveLinksUpdate(t)
  \/ kvSaveLinksInsert(t)
  \/ kvSaveLinksIndex(t)
  \/ kvSaveLinksCountGet(t)
  \/ kvSaveLinksCountSet(t)

(* ----------------------- ensureSchema, withClient --------------------- *)
besideSchema == << db, clock, storeVars, siteVars, kvVars, query, jobVars, doc, player >>

\* Mutant: a rejected initialization counts as missing.
SchemaInitMissing_OrRejected == schema.init \in { "null", "rejected" }

\* Mutant: the guard tests whether the initialization has completed.
SchemaInitMissing_UntilReady == schema.init \in { "null", "pending" }

\* if (!schemaInit)
SchemaInitMissing == schema.init = "null"

\* withClient: await ensureSchema(). The test of schemaInit and its
\* assignment run without an await in between; the initialization itself
\* runs up to its pool.connect().
withClientEnters(c) ==
  /\ caller[c] = "idle"
  /\ caller' = [caller EXCEPT ![c] = "await_schema"]
  /\ schema' = IF SchemaInitMissing
               THEN [schema EXCEPT !.init = "pending", !.initPc = "connect",
                                   !.ddlRuns = @ + 1]
               ELSE schema

withClientStart(c) ==
  /\ withClientEnters(c)
  /\ UNCHANGED << besideSchema >>

\* The initialization: const client = await pool.connect()
schemaInitConnect ==
  /\ schema.initPc = "connect"
  /\ \/ /\ schema.inUse < PoolSize
        /\ schema' = [schema EXCEPT !.initPc = "ddl", !.inUse = @ + 1]
     \/ schema' = [schema EXCEPT !.initPc = "done", !.init = "rejected"]
  /\ UNCHANGED << caller, besideSchema >>

\* The initialization: the DDL block, then finally { client.release() }
schemaInitDdl ==
  /\ schema.initPc = "ddl"
  /\ \E outcome \in { "resolved", "rejected" } :
       schema' = [schema EXCEPT !.initPc = "done", !.init = outcome,
                                !.inUse = @ - 1]
  /\ UNCHANGED << caller, besideSchema >>

\* await schemaInit ends: the caller goes on to pool.connect(), or the
\* rejection is thrown to it.
ensureSchemaReturns(c) ==
  /\ caller[c] = "await_schema"
  /\ schema.init \in { "resolved", "rejected" }
  /\ caller' = [caller EXCEPT ![c] =
                  IF schema.init = "resolved" THEN "connect" ELSE "raised"]
  /\ UNCHANGED << schema, besideSchema >>

\* withClient: const client = await pool.connect()
withClientConnect(c) ==
  /\ caller[c] = "connect"
  /\ schema.inUse < PoolSize
  /\ caller' = [caller EXCEPT ![c] = "query"]
  /\ schema' = [schema EXCEPT !.inUse = @ + 1]
  /\ UNCHANGED << besideSchema >>

\* Mutant: withClient without its finally block.
withClientReleases_KeepsClient(c) ==
  /\ caller[c] = "query"
  /\ caller' = [caller EXCEPT ![c] = "idle"]
  /\ UNCHANGED schema

\* withClient: return await fn(client), then finally { client.release() }
withClientReleases(c) ==
  /\ caller[c] = "query"
  /\ caller' = [caller EXCEPT ![c] = "idle"]
  /\ schema' = [schema EXCEPT !.inUse = @ - 1]

withClientReturns(c) ==
  /\ withClientReleases(c)
  /\ UNCHANGED << besideSchema >>

\* The rejection of schemaInit reaches the caller of the store operation.
withClientRejects(c) ==
  /\ caller[c] = "raised"
  /\ caller' = [caller EXCEPT ![c] = "idle"]
  /\ UNCHANGED schema

withClientThrows(c) ==
  /\ withClientRejects(c)
  /\ UNCHANGED << besideSchema >>

(* ------------------- store operations through withClient --------------- *)
besideJob == << clock, storeVars, siteVars, kvVars, query, req, doc, player >>

\* The store operations that take a list, and the two on the export counter.
JobOps ==
  { "saveLinks", "getClickCounts", "getLikeCounts", "getUserLikes",
    "trackExport", "getExportCount" }

\* The arguments of a call: no element or one for the operations that test
\* the length of their list before withClient, no element for the others
\* (getClickCounts and getLikeCounts enter withClient whatever the list is).
JobArgs(op) ==
  CASE op = "saveLinks" -> { << >>, << LinkAB >> }
    [] op = "getUserLikes" -> { << >>, << <<98>> >> }
    [] OTHER -> { << >> }

\* The operation returns before withClient: if (links.length === 0) return 0
\* in saveLinks, if (urls.length === 0) return new Set() in getUserLikes.
ReturnsEarly(op, args) ==
  /\ op \in { "saveLinks", "getUserLikes" }
  /\ Len(args) = 0

\* result.rows[0]?.value ?? 0n
MetaValueOr0(key) == IF key \in DOMAIN meta THEN meta[key] ELSE 0

\* Mutant: the conflicting row takes the inserted value.
incrementMeta_Overwrites(key, delta) == delta

\* INSERT INTO meta (key, value) VALUES ($1, $2) ON CONFLICT (key)
\*   DO UPDATE SET value = meta.value + EXCLUDED.value RETURNING value
incrementMeta(key, delta) == MetaValueOr0(key) + delta

\* fn(client) of the operation: the rows of links and of meta afterwards, the
\* value returned and the number of statements issued.
JobFn(op, args) ==
  CASE op = "saveLinks" ->
         LET s == SaveAll(db["links"], args, clock)
         IN  [links |-> s.rows, meta |-> meta, statements |-> Len(args) + 2,
              result |-> [NoValue EXCEPT !.count = s.newCount]]
    [] op = "getClickCounts" ->
         [links |-> db["links"], meta |-> meta,
          statements |-> IF Len(args) = 0 THEN 0 ELSE 1,
          result |-> [NoValue EXCEPT !.counts = getClickCounts(args)]]
    [] op = "getLikeCounts" ->
         [links |-> db["links"], meta |-> meta,
          statements |-> IF Len(args) = 0 THEN 0 ELSE 1,
          result |-> [NoValue EXCEPT !.counts = getLikeCounts(args)]]
    [] op = "getUserLikes" ->
         [links |-> db["links"], meta |-> meta, statements |-> 1,
          result |-> [NoValue EXCEPT !.liked = getUserLikes(args, "v1")]]
    [] op = "trackExport" ->
         [links |-> db["links"],
          meta |-> [k \in DOMAIN meta \cup { "exports" } |->
                      IF k = "exports" THEN incrementMeta("exports", 1) ELSE meta[k]],
          statements |-> 1, result |-> NoValue]
    [] op = "getExportCount" ->
         [links |-> db["links"], meta |-> meta, statements |-> 1,
          result |-> [NoValue EXCEPT !.count = MetaValueOr0("exports")]]

\* The callers call in the order of their numbers, MaxJobs of them at most.
NextToCall(c) ==
  /\ c <= MaxJobs
  /\ job[c].state = "none"
  /\ \A d \in Callers : d < c => job[d].state # "none"

\* A store operation is called: it returns early, or it calls withClient.
jobCall(c, op, args) ==
  /\ NextToCall(c)
  /\ IF ReturnsEarly(op, args)
     THEN /\ job' = [job EXCEPT ![c] =
                 [NoJob EXCEPT !.op = op, !.args = args, !.state = "returned"]]
          /\ UNCHANGED << schemaVars >>
     ELSE /\ withClientEnters(c)
          /\ job' = [job EXCEPT ![c] =
                 [NoJob EXCEPT !.op = op, !.args = args, !.state = "withClient"]]
  /\ UNCHANGED << db, meta, besideJob >>

\* withClient: return await fn(client), then finally { client.release() }
jobReturns(c) ==
  /\ job[c].state = "withClient"
  /\ withClientReleases(c)
  /\ LET out == JobFn(job[c].op, job[c].args)
     IN  /\ db' = [db EXCEPT !["links"] = out.links]
         /\ meta' = out.meta
         /\ job' = [job EXCEPT ![c].state = "returned",
                               ![c].statements = out.statements,
                               ![c].result = out.result]
  /\ UNCHANGED << besideJob >>

\* The rejection of schemaInit reaches the caller of the store operation.
jobThrows(c) ==
  /\ job[c].state = "withClient"
  /\ withClientRejects(c)
  /\ job' = [job EXCEPT ![c].state = "raised"]
  /\ UNCHANGED << db, meta, besideJob >>

(* --------------------------- scrapeHnComments -------------------------- *)
besideScrapeHnComments ==
  << db, clock, storeVars, siteVars, kvVars, schemaVars, query, jobVars, player >>

\* x || fallback, for a string attribute or text x
OrElse(x, fallback) ==
  IF x.present /\ Len(x.value) > 0 THEN x.value ELSE fallback

\* Mutant: the width of the indentation image is not tested.
IsTopLevel_AnyWidth(row) == row.img

\* if (!indentImg) continue; indentWidth = parseInt(width || "0", 10);
\* if (indentWidth !== 0) continue
IsTopLevel(row) ==
  /\ row.img
  /\ LET indentWidth == parseInt(OrElse(row.width, <<48>>))
     IN  ~indentWidth.nan /\ indentWidth.value = 0

\* commentId ? `${BASE_URL}/item?id=${commentId}` : ""
commentUrlOf(row) ==
  IF row.id.present /\ Len(row.id.value) > 0
  THEN BASE_URL \o ItemPath \o row.id.value
  ELSE << >>

\* row.querySelector("a.hnuser")?.textContent?.trim() || "unknown"
authorOf(row) ==
  OrElse(IF row.hnuser.present THEN Present(trim(row.hnuser.value)) ELSE Absent,
         <<117, 110, 107, 110, 111, 119, 110>>)

\* Mutant: the anchors whose href is "#" are kept.
ResolvedHref_KeepsHash(href0) ==
  IF startsWith(href0, <<114, 101, 112, 108, 121, 63>>) \/ startsWith(href0, <<117, 115, 101, 114, 63>>) THEN << >>
  ELSE LET href == IF startsWith(href0, <<47>>) THEN BASE_URL \o href0 ELSE href0
       IN  IF Len(href) = 0 THEN << >> ELSE << href >>

\* The body of the loop over the anchors for one href: the url pushed, if any.
ResolvedHref(href0) ==
  IF startsWith(href0, <<114, 101, 112, 108, 121, 63>>) \/ startsWith(href0, <<117, 115, 101, 114, 63>>) THEN << >>
  ELSE LET href == IF startsWith(href0, <<47>>) THEN BASE_URL \o href0 ELSE href0
       IN  IF Len(href) = 0 \/ href = <<35>> THEN << >> ELSE << href >>

\* Mutant: a url is pushed once per row.
RECURSIVE PushedLinks_OncePerUrl(_, _, _)
PushedLinks_OncePerUrl(anchors, author, commentUrl) ==
  IF Len(anchors) = 0 THEN << >>
  ELSE LET rest == PushedLinks_OncePerUrl(Tail(anchors), author, commentUrl)
           urls == IF Head(anchors).present
                   THEN ResolvedHref(OrElse(Head(anchors), << >>)) ELSE << >>
       IN  IF urls = << >> \/ \E k \in 1..Len(rest) : rest[k].extractedLink = urls[1]
           THEN rest
           ELSE << Link(author, commentUrl, urls[1]) >> \o rest

\* The loop over commentContent.querySelectorAll("a[href]"): the links
\* pushed, in the order of the anchors.
RECURSIVE PushedLinks(_, _, _)
PushedLinks(anchors, author, commentUrl) ==
  IF Len(anchors) = 0 THEN << >>
  ELSE LET urls == IF Head(anchors).present
                   THEN ResolvedHref(OrElse(Head(anchors), << >>)) ELSE << >>
       IN  [k \in 1..Len(urls) |-> Link(author, commentUrl, urls[k])]
             \o PushedLinks(Tail(anchors), author, commentUrl)

\* One iteration of the loop over the rows: what the row adds to results.
RowLinks(row) ==
  IF ~IsTopLevel(row) THEN << >>
  ELSE IF ~row.commtext.present THEN << >>
  ELSE PushedLinks(row.commtext.value, authorOf(row), commentUrlOf(row))

\* for (const row of rows) { ... }: one iteration.
scrapeHnCommentsRow ==
  /\ doc.pc = "rows"
  /\ doc.i <= Len(doc.rows)
  /\ doc' = [doc EXCEPT !.results = @ \o RowLinks(doc.rows[doc.i]),
                          !.i = @ + 1]
  /\ UNCHANGED << besideScrapeHnComments >>

\* return results
scrapeHnCommentsReturns ==
  /\ doc.pc = "rows"
  /\ doc.i > Len(doc.rows)
  /\ doc' = [doc EXCEPT !.pc = "returned"]
  /\ UNCHANGED << besideScrapeHnComments >>

(* ---------------------- /go, /like, /like/status ---------------------- *)
besideRequest == << storeVars, siteVars, kvVars, schemaVars, query, job, meta, doc, player >>

\* What a request carries where the handler looks for the url: nothing, the
\* empty string, or a url; for POST /like the JSON body is an object without
\* url, an object with url "" or a url, the value null, or not JSON at all.
UrlInputs ==
  { [kind |-> "absent", url |-> << >>], [kind |-> "empty", url |-> << >>] }
    \cup { [kind |-> "url", url |-> u] : u \in Urls }

BodyInputs ==
  UrlInputs \cup { [kind |-> "null", url |-> << >>], [kind |-> "not_json", url |-> << >>] }

\* if (!target), if (!url)
UrlMissing(input) == input.kind \in { "absent", "empty" }

\* await c.req.json() rejects, or body.url is read of null.
BodyThrows(input) == input.kind \in { "null", "not_json" }

\* trackClick(url) as its caller sees it when it commits.
TrackedClick(url, now) ==
  LET hash == hashUrl(url)
      totals == { r \in db["clicks"] : r.url_hash = hash }
      daily == { r \in db["clicks_daily"] : r.url_hash = hash /\ r.day = DayOf(now) }
  IN  [db EXCEPT
         !["clicks"] =
           IF totals # {}
           THEN (@ \ totals) \cup { [r EXCEPT !.total = @ + 1, !.url = url] : r \in totals }
           ELSE @ \cup { [url_hash |-> hash, url |-> url, total |-> 1] },
         !["clicks_daily"] =
           IF daily # {}
           THEN (@ \ daily) \cup { [r EXCEPT !.count = @ + 1] : r \in daily }
           ELSE @ \cup { [url_hash |-> hash, day |-> DayOf(now), count |-> 1] }]

\* toggleLike(url, visitorId) as its caller sees it when it commits: the
\* store afterwards and the { liked, count } returned.
ToggledLike(url, visitorId) ==
  LET hash == hashUrl(url)
      ensured == IF \E r \in db["likes"] : r.url_hash = hash
                 THEN db["likes"]
                 ELSE db["likes"] \cup { [url_hash |-> hash, total |-> 0] }
      row == CHOOSE r \in ensured : r.url_hash = hash
      member == [url_hash |-> hash, visitor_id |-> visitorId]
      hasLiked == member \in db["liked_by"]
      total == IF hasLiked THEN DecrementedTotal(row.total)
               ELSE IncrementedTotal(row.total)
  IN  [db |-> [db EXCEPT
                 !["likes"] = (ensured \ { row }) \cup { [row EXCEPT !.total = total] },
                 !["liked_by"] = IF hasLiked THEN @ \ { member } ELSE @ \cup { member }],
       liked |-> ~hasLiked,
       count |-> total]

Handled(route, input, visitorId, status, calls, body) ==
  [route |-> route, input |-> input, visitorId |-> visitorId, status |-> status,
   calls |-> calls, before |-> db, body |-> body, handled |-> req.handled + 1]

\* GET /go: 400 without url; else trackClick(target), then the redirect.
\* A trackClick that rejects makes the handler throw (status 500).
goRequest(input, now) ==
  /\ req.handled < MaxRequests
  /\ IF UrlMissing(input)
     THEN /\ req' = Handled("/go", input, "", 400, << >>, NoValue)
          /\ UNCHANGED << db, clock >>
     ELSE \/ /\ db' = TrackedClick(input.url, now)
             /\ clock' = now
             /\ req' = Handled("/go", input, "", 302, << "trackClick" >>, NoValue)
          \/ /\ req' = Handled("/go", input, "", 500, << "trackClick" >>, NoValue)
             /\ UNCHANGED << db, clock >>
  /\ UNCHANGED << besideRequest >>

\* POST /like: the body is parsed and body.url read; 400 without url; else
\* toggleLike(url, visitorId) and its result as JSON.
likeRequest(input, visitorId) ==
  /\ req.handled < MaxRequests
  /\ IF BodyThrows(input)
     THEN /\ req' = Handled("/like", input, visitorId, 500, << >>, NoValue)
          /\ UNCHANGED db
     ELSE IF UrlMissing(input)
     THEN /\ req' = Handled("/like", input, visitorId, 400, << >>, NoValue)
          /\ UNCHANGED db
     ELSE \/ LET out == ToggledLike(input.url, visitorId)
             IN  /\ db' = out.db
                 /\ req' = Handled("/like", input, visitorId, 200, << "toggleLike" >>,
                                   [NoValue EXCEPT !.count = out.count,
                                      !.liked = IF out.liked THEN { input.url } ELSE {}])
          \/ /\ req' = Handled("/like", input, visitorId, 500, << "toggleLike" >>, NoValue)
             /\ UNCHANGED db
  /\ UNCHANGED << clock, besideRequest >>

\* GET /like/status: 400 without url; else getLikeCounts([url]) and
\* getUserLikes([url], visitorId).
likeStatusRequest(input, visitorId) ==
  /\ req.handled < MaxRequests
  /\ req' =
       IF UrlMissing(input)
       THEN Handled("/like/status", input, visitorId, 400, << >>, NoValue)
       ELSE Handled("/like/status", input, visitorId, 200,
                    << "getLikeCounts", "getUserLikes" >>,
                    [NoValue EXCEPT
                       !.count = getLikeCounts(<< input.url >>)[input.url],
                       !.liked = getUserLikes(<< input.url >>, visitorId)])
  /\ UNCHANGED << db, clock, besideRequest >>

(* ------------------------------- reading ------------------------------- *)
besideQuery == << db, clock, storeVars, siteVars, kvVars, schemaVars, jobVars, doc, player >>

\* The search strings: none, "AL", "C" and "x".
QuerySearches == { << >>, <<65, 76>>, <<67>>, <<120>> }

QueryOptions ==
  [page : -1..MaxPage, perPage : 1..MaxPerPage, search : QuerySearches,
   sort : { "author", "clicks", "likes" }, order : { "asc", "desc" }]

\* options asks for the page after the one read last, of the same listing.
NextPageOf(options) ==
  /\ query.op = "getLinks"
  /\ query.browsing
  /\ options.page = query.options.page + 1
  /\ options = [query.options EXCEPT !.page = options.page]

\* GET /: getLinks(options), for a first page or listing, or for the page
\* after the one read last.
getLinksCall(options) ==
  /\ query.op = "none" \/ NextPageOf(options)
  /\ LET res == getLinks(options, query.scan)
     IN  query' = [NoQuery(query.scan) EXCEPT
           !.op = "getLinks", !.options = options, !.res = res,
           !.browsing = (options.page = 1 \/ NextPageOf(options)),
           !.acc = IF options.page = 1 THEN res.links
                   ELSE IF NextPageOf(options) THEN query.acc \o res.links
                   ELSE << >>]
  /\ UNCHANGED << besideQuery >>

\* getClickCounts(urls)
getClickCountsCall(urls) ==
  /\ query.op = "none"
  /\ query' = [NoQuery(query.scan) EXCEPT
        !.op = "getClickCounts", !.urls = urls, !.counts = getClickCounts(urls)]
  /\ UNCHANGED << besideQuery >>

\* getLikeCounts(urls)
getLikeCountsCall(urls) ==
  /\ query.op = "none"
  /\ query' = [NoQuery(query.scan) EXCEPT
        !.op = "getLikeCounts", !.urls = urls, !.counts = getLikeCounts(urls)]
  /\ UNCHANGED << besideQuery >>

(* --------------------------- /fishtank/links --------------------------- *)
\* The order of ids that ORDER BY id sorts by: character by character, a
\* prefix first.
RECURSIVE IdBefore(_, _)
IdBefore(a, b) ==
  IF Len(a) = 0 THEN Len(b) > 0
  ELSE IF Len(b) = 0 THEN FALSE
  ELSE IF a[1] # b[1] THEN a[1] < b[1]
  ELSE IdBefore(Tail(a), Tail(b))

\* SELECT ... FROM links ORDER BY id
RECURSIVE OrderedById(_)
OrderedById(rows) ==
  IF rows = {} THEN << >>
  ELSE LET first == CHOOSE r \in rows :
                      \A o \in rows \ { r } : IdBefore(r.id, o.id)
       IN  << first >> \o OrderedById(rows \ { first })

getAllLinks ==
  LET rows == OrderedById(db["links"])
  IN  [k \in 1..Len(rows) |-> toStoredLink(rows[k])]

\* Mutant: every url of the list is kept.
UniqueUrls_All(urls) == urls

\* Array.from(new Set(urls)): the first occurrence of every url, in order.
RECURSIVE UniqueUrls(_)
UniqueUrls(urls) ==
  IF Len(urls) = 0 THEN << >>
  ELSE LET front == UniqueUrls(SubSeq(urls, 1, Len(urls) - 1))
           last == urls[Len(urls)]
       IN  IF \E k \in 1..Len(front) : front[k] = last
           THEN front ELSE Append(front, last)

\* The page and perPage parameters of the query string: none, "", or a
\* decimal number.
PageParams ==
  { Absent, Present(<< >>), Present(<<45, 49>>), Present(<<48>>) }
    \cup { Present(<< 48 + n >>) : n \in 1..MaxPage }

PerPageParams ==
  { Absent, Present(<< >>), Present(<<48>>) }
    \cup { Present(<< 48 + n >>) : n \in 1..MaxPerPage }

\* Math.max(1, parseInt(url.searchParams.get(name) || fallback, 10)), for a
\* parameter that is a number
ParamAtLeast1(param, fallback) == Max(1, parseInt(OrElse(param, fallback)).value)

\* app.get("/fishtank/links", ...): the JSON returned.
fishtankLinks(pageParam, perPageParam) ==
  LET page == ParamAtLeast1(pageParam, <<49>>)
      perPage == ParamAtLeast1(perPageParam, <<50, 48, 48>>)
      links == getAllLinks
      urls == UniqueUrls([k \in 1..Len(links) |-> links[k].extractedLink])
      total == Len(urls)
      totalPages == Max(1, CeilDiv(total, perPage))
      start == (page - 1) * perPage
  IN  [page |-> page, perPage |-> perPage, total |-> total,
       totalPages |-> totalPages, urls |-> slice(urls, start, start + perPage)]

\* The request asks for the page after the one read last, of the same feed.
NextFeedPage(pageParam, perPageParam) ==
  /\ query.op = "fishtank"
  /\ query.browsing
  /\ query.params.perPage = perPageParam
  /\ pageParam.present
  /\ parseInt(OrElse(pageParam, <<49>>)).value = query.options.page + 1

\* GET /fishtank/links, for a first request or for the page after the one
\* read last.
fishtankLinksRequest(pageParam, perPageParam) ==
  /\ query.op = "none" \/ NextFeedPage(pageParam, perPageParam)
  /\ LET res == fishtankLinks(pageParam, perPageParam)
     IN  query' = [NoQuery(query.scan) EXCEPT
           !.op = "fishtank",
           !.params = [page |-> pageParam, perPage |-> perPageParam],
           !.options = [NoOptions EXCEPT !.page = res.page, !.perPage = res.perPage],
           !.res = [links |-> res.urls, total |-> res.total,
                    totalPages |-> res.totalPages],
           !.browsing = (res.page = 1 \/ NextFeedPage(pageParam, perPageParam)),
           !.acc = IF res.page = 1 THEN res.urls
                   ELSE IF NextFeedPage(pageParam, perPageParam)
                   THEN query.acc \o res.urls
                   ELSE << >>]
  /\ UNCHANGED << besideQuery >>

(* --------------------------- specifications ---------------------------- *)
\* Concurrent toggleLike calls on the pooled connections.
NextLikes ==
  \E p \in Procs :
    \/ \E u \in Urls, v \in Visitors : toggleLikeStart(p, u, v, FALSE)
    \/ toggleLikeStep(p)
    \/ Ending(p)

SpecLikes == Init /\ [][NextLikes]_vars

\* Concurrent saveLinks calls (overlapping scrapes).
NextLinks ==
  \/ saveLinksEmpty(FALSE)
  \/ \E p \in Procs :
       \/ \E links \in OverlapBatches, now \in Now :
            saveLinksStart(p, links, now, FALSE)
       \/ saveLinksStep(p)
       \/ DeadlockDetected(p)
       \/ Ending(p)

SpecLinks == Init /\ [][NextLinks]_vars

\* Concurrent trackClick calls.
NextClicks ==
  \E p \in Procs :
    \/ \E u \in Urls, now \in Now : trackClickStart(p, u, now, FALSE)
    \/ trackClickStep(p)
    \/ Ending(p)

SpecClicks == Init /\ [][NextClicks]_vars

\* toggleLike calls, one at a time.
NextLikesSeq ==
  \E p \in Procs :
    \/ \E u \in Urls, v \in Visitors : toggleLikeStart(p, u, v, TRUE)
    \/ toggleLikeStep(p)
    \/ Ending(p)

SpecLikesSeq == Init /\ [][NextLikesSeq]_vars

\* All operations, one call at a time.
Next ==
  \/ CallsBegun < MaxSeqCalls /\ saveLinksEmpty(TRUE)
  \/ \E p \in Procs :
       \/ /\ CallsBegun < MaxSeqCalls
          /\ \/ \E u \in Urls, v \in Visitors : toggleLikeStart(p, u, v, TRUE)
             \/ \E links \in Batches, now \in Now : saveLinksStart(p, links, now, TRUE)
             \/ \E u \in Urls, now \in Now : trackClickStart(p, u, now, TRUE)
       \/ toggleLikeStep(p)
       \/ saveLinksStep(p)
       \/ trackClickStep(p)
       \/ Ending(p)

Spec == Init /\ [][Next]_vars

\* What the store holds when the process starts: nothing, or an earlier
\* run's link.
StartStores == { {}, { StoredRow(LinkAB, 0) } }

InitSite ==
  /\ \E rows \in StartStores : db = [EmptyTables EXCEPT !["links"] = rows]
  /\ tx = [p \in Procs |-> EmptyTx]
  /\ pc = [p \in Procs |-> "idle"]
  /\ call = [p \in Procs |-> NoCall]
  /\ clock = 0
  /\ started = [op \in Ops |-> 0]
  /\ likeHist = << >>
  /\ saveHist = << >>
  /\ clickDone = [u \in Urls |-> 0]
  /\ \E e \in Entries : host = HostAtStart(e)
  /\ scrape = [t \in Triggers |-> NoScrape]
  /\ KvInit
  /\ SchemaInit
  /\ JobInit
  /\ doc = Fetched(<< >>)
  /\ player = PlayerAtStart(0)
  /\ query = NoQuery(<< >>)

\* The server process: startup, the background scrape and the hourly ticks.
NextSite ==
  \/ StartMain
  \/ StartEarlier
  \/ EarlierResumes
  \/ CronTick
  \/ \E t \in Triggers : runScraperStep(t)

SpecSite == InitSite /\ [][NextSite]_vars

\* saveLinks calls of overlapping scrapes on the key-value variant.
NextKv ==
  \E t \in Triggers :
    \/ \E links \in OverlapBatches \cup { << >> }, now \in Now :
         kvSaveLinksStart(t, links, now)
    \/ kvSaveLinksStep(t)

SpecKv == Init /\ [][NextKv]_vars

\* Store operations of one process calling withClient.
NextSchema ==
  \/ schemaInitConnect
  \/ schemaInitDdl
  \/ \E c \in Callers :
       \/ withClientStart(c)
       \/ ensureSchemaReturns(c)
       \/ withClientConnect(c)
       \/ withClientReturns(c)
       \/ withClientThrows(c)

SpecSchema == Init /\ [][NextSchema]_vars

\* Every started step of withClient and of the initialization goes on, and
\* the pool hands a released connection to the request that waits longest.
PoolFairness ==
  /\ WF_vars(schemaInitConnect)
  /\ WF_vars(schemaInitDdl)
  /\ \A c \in Callers :
       /\ WF_vars(ensureSchemaReturns(c))
       /\ SF_vars(withClientConnect(c))
       /\ WF_vars(withClientReturns(c))
       /\ WF_vars(withClientThrows(c))

SpecPool == Init /\ [][NextSchema]_vars /\ PoolFairness

\* Store operations called while others are in withClient.
NextJobs ==
  \/ schemaInitConnect
  \/ schemaInitDdl
  \/ \E c \in Callers :
       \/ \E op \in JobOps : \E args \in JobArgs(op) : jobCall(c, op, args)
       \/ ensureSchemaReturns(c)
       \/ withClientConnect(c)
       \/ jobReturns(c)
       \/ jobThrows(c)

SpecJobs == Init /\ [][NextJobs]_vars

\* Scrapes of a store that already holds the pair ("a", "b").
InitTouch ==
  /\ db = [EmptyTables EXCEPT !["links"] = { StoredRow(LinkAB, 0) }]
  /\ SiteInit
  /\ KvInit
  /\ SchemaInit
  /\ JobInit
  /\ doc = Fetched(<< >>)
  /\ player = PlayerAtStart(0)
  /\ query = NoQuery(<< >>)
  /\ tx = [p \in Procs |-> EmptyTx]
  /\ pc = [p \in Procs |-> "idle"]
  /\ call = [p \in Procs |-> NoCall]
  /\ clock = 0
  /\ started = [op \in Ops |-> 0]
  /\ likeHist = << >>
  /\ saveHist = << >>
  /\ clickDone = [u \in Urls |-> 0]

NextTouch ==
  \E p \in Procs :
    \/ \E links \in TouchBatches, now \in Now :
         saveLinksStart(p, links, now, FALSE)
    \/ saveLinksStep(p)
    \/ DeadlockDetected(p)
    \/ Ending(p)

SpecTouch == InitTouch /\ [][NextTouch]_vars

\* saveLinks calls, one at a time, with links of one comment.
NextIds ==
  \E p \in Procs :
    \/ \E links \in IdBatches, now \in Now : saveLinksStart(p, links, now, TRUE)
    \/ saveLinksStep(p)
    \/ Ending(p)

SpecIds == Init /\ [][NextIds]_vars

\* The visitors of the first likes: "v0" liked before the calls, the others
\* have liked nothing yet.
FirstLikers == Visitors \cup { "v3" }

\* A store where no url is liked, or where "v0" likes the first url.
InitFirstLikes ==
  /\ db \in { EmptyTables,
              [EmptyTables EXCEPT
                 !["likes"] = { [url_hash |-> hashUrl(UrlList[1]), total |-> 1] },
                 !["liked_by"] = { [url_hash |-> hashUrl(UrlList[1]),
                                    visitor_id |-> "v0"] }] }
  /\ SiteInit
  /\ KvInit
  /\ SchemaInit
  /\ JobInit
  /\ doc = Fetched(<< >>)
  /\ player = PlayerAtStart(0)
  /\ query = NoQuery(<< >>)
  /\ tx = [p \in Procs |-> EmptyTx]
  /\ pc = [p \in Procs |-> "idle"]
  /\ call = [p \in Procs |-> NoCall]
  /\ clock = 0
  /\ started = [op \in Ops |-> 0]
  /\ likeHist = << >>
  /\ saveHist = << >>
  /\ clickDone = [u \in Urls |-> 0]

\* Visitor v neither likes url nor has a toggleLike call for it in flight.
NotYetLiked(url, v) ==
  /\ [url_hash |-> hashUrl(url), visitor_id |-> v] \notin db["liked_by"]
  /\ \A q \in Procs :
       pc[q] = "idle" \/ call[q].url # url \/ call[q].visitorId # v

\* Overlapping toggleLike calls of visitors who have not liked the url, on a
\* store that answers every statement: the statements of the branch taken
\* when the SELECT finds no membership row.
NextFirstLikes ==
  \E p \in Procs :
    \/ \E u \in Urls, v \in FirstLikers :
         NotYetLiked(u, v) /\ toggleLikeStart(p, u, v, FALSE)
    \/ toggleLikeEnsure(p)
    \/ toggleLikeSelect(p)
    \/ toggleLikeInsert(p)
    \/ toggleLikeIncrement(p)
    \/ toggleLikeCommit(p)

SpecFirstLikes == InitFirstLikes /\ [][NextFirstLikes]_vars

(* ------------------------- the fishtank player ------------------------ *)
besidePlayer ==
  << db, clock, storeVars, siteVars, kvVars, schemaVars, query, jobVars, doc >>

\* The remainder operator of the script: the sign of the dividend, NaN for
\* the divisor 0.
JsRem(a, n) ==
  IF n = 0 THEN NaN
  ELSE IF a >= 0 THEN Num(a % n)
  ELSE Num(0 - ((0 - a) % n))

\* x + d
Plus(x, d) == IF x.nan THEN NaN ELSE Num(x.value + d)

\* Mutant: the index is reduced without adding the length first.
WrappedIndex_NoOffset(index, len) ==
  IF index.nan THEN NaN ELSE JsRem(index.value, len)

\* (index + urls.length) % urls.length
WrappedIndex(index, len) ==
  IF index.nan THEN NaN ELSE JsRem(index.value + len, len)

\* The values of Math.random() during one shuffle: near 0, 0.5, near 1.
RandomDraws == { "low", "mid", "high" }

\* Math.floor(Math.random() * (i + 1))
DrawnIndex(r, i) ==
  CASE r = "low" -> 0
    [] r = "mid" -> (i + 1) \div 2
    [] r = "high" -> i

\* The loop of safeShuffle from index i down to 1: urls[i] and urls[j] are
\* exchanged (indexes from 0).
RECURSIVE Shuffled(_, _, _)
Shuffled(urls, i, r) ==
  IF i <= 0 THEN urls
  ELSE LET j == DrawnIndex(r, i)
           swapped == [urls EXCEPT ![i + 1] = urls[j + 1], ![j + 1] = urls[i + 1]]
       IN  Shuffled(swapped, i - 1, r)

safeShuffle(pl, r) ==
  [pl EXCEPT !.urls = Shuffled(pl.urls, Len(pl.urls) - 1, r),
             !.currentIndex = Num(0)]

\* loadIndex(index): a new token, the wrapped index, frame.src = url, the
\* pending timer cleared and a timer of 5 seconds armed for the token.
loadIndex(pl, index) ==
  [pl EXCEPT !.loadToken = @ + 1,
             !.currentIndex = WrappedIndex(index, Len(pl.urls)),
             !.status = "Loading...",
             !.frame = "pending",
             !.timers = (@ \ { pl.loadTimer }) \cup { pl.loadToken + 1 },
             !.loadTimer = pl.loadToken + 1]

\* Mutant: the skipping stops one skip later.
Skipped_OnePast(pl) ==
  LET counted == [pl EXCEPT !.skipCount = @ + 1]
  IN  IF counted.skipCount > Len(pl.urls)
      THEN [counted EXCEPT !.status = "No embeddable sites found."]
      ELSE loadIndex([counted EXCEPT !.status = "Skipping site (iframe blocked)",
                                     !.advances = @ + 1],
                     Plus(counted.currentIndex, 1))

\* skipCount += 1, then 'No embeddable sites found.' or the next site.
\* advances counts the sites skipped to in a row: it is no variable of the
\* script.
Skipped(pl) ==
  LET counted == [pl EXCEPT !.skipCount = @ + 1]
  IN  IF counted.skipCount >= Len(pl.urls)
      THEN [counted EXCEPT !.status = "No embeddable sites found."]
      ELSE loadIndex([counted EXCEPT !.status = "Skipping site (iframe blocked)",
                                     !.advances = @ + 1],
                     Plus(counted.currentIndex, 1))

\* urls.length - currentIndex > 6
PrefetchWindow == 6

\* Mutant: maybePrefetch without its test of loading.
PrefetchBlocked_IgnoresLoading(pl) ==
  \/ pl.page >= pl.totalPages
  \/ ~pl.currentIndex.nan /\ Len(pl.urls) - pl.currentIndex.value > PrefetchWindow

\* The three early returns of maybePrefetch.
PrefetchBlocked(pl) ==
  \/ pl.loading
  \/ pl.page >= pl.totalPages
  \/ ~pl.currentIndex.nan /\ Len(pl.urls) - pl.currentIndex.value > PrefetchWindow

\* maybePrefetch(): page + 1 of the feed is requested.
maybePrefetch(pl) ==
  IF PrefetchBlocked(pl) THEN pl
  ELSE [pl EXCEPT !.loading = TRUE, !.inflight = Append(@, pl.page + 1)]

\* The urls of page k of a feed of total distinct urls: url j of page k is
\* << k, j >>.
FeedUrls(k, total) ==
  [j \in 1..Max(0, Min(total - (k - 1) * MaxFeedPerPage, MaxFeedPerPage)) |-> << k, j >>]

\* totalPages of the feed's response
FeedTotalPages(total) == Max(1, CeilDiv(total, MaxFeedPerPage))

\* The first page of the feed arrives: urls, page and totalPages are set and
\* startPlayback() shuffles and loads index 0, or shows 'No sites found.'
feedLoaded(total) ==
  /\ player.phase = "fetching"
  /\ total >= player.feedTotal
  /\ LET got == [player EXCEPT !.urls = FeedUrls(1, total),
                               !.page = 1,
                               !.totalPages = FeedTotalPages(total),
                               !.feedTotal = total]
     IN  IF Len(got.urls) = 0
         THEN player' = [got EXCEPT !.phase = "no_sites",
                                    !.status = "No sites found."]
         ELSE \E r \in RandomDraws :
                player' = loadIndex(safeShuffle([got EXCEPT !.phase = "playing"], r),
                                    Num(0))
  /\ UNCHANGED besidePlayer

\* The first fetch fails, or its body is no JSON.
feedFailed ==
  /\ player.phase = "fetching"
  /\ player' = [player EXCEPT !.phase = "failed",
                              !.status = "Failed to load sites."]
  /\ UNCHANGED besidePlayer

\* The load event of the frame without src reaches the listener: no timer
\* is set and looksBlocked() finds about:blank.
frameLoadBlank ==
  /\ player.frame = "blank"
  /\ player' = Skipped([player EXCEPT !.frame = "loaded"])
  /\ UNCHANGED besidePlayer

\* The load event of the site in the frame: the timer is cleared, then the
\* site is skipped if it looks blocked, else skipCount = 0 and maybePrefetch().
frameLoad(blocked) ==
  /\ player.frame = "pending"
  /\ LET cleared == [player EXCEPT !.frame = "loaded",
                                   !.timers = @ \ { player.loadTimer },
                                   !.loadTimer = 0]
     IN  player' = IF blocked THEN Skipped(cleared)
                   ELSE maybePrefetch([cleared EXCEPT !.skipCount = 0,
                                                      !.advances = 0,
                                                      !.status = ""])
  /\ UNCHANGED besidePlayer

\* The timer armed for token t fires: if (token !== loadToken) return.
timerFires(t) ==
  /\ t \in player.timers
  /\ LET fired == [player EXCEPT !.timers = @ \ { t }]
     IN  player' = IF t # player.loadToken THEN fired ELSE Skipped(fired)
  /\ UNCHANGED besidePlayer

\* A click on Prev (dir -1) or Next (dir 1).
clickDir(dir) ==
  /\ player.clicks < MaxPlayerClicks
  /\ player' = loadIndex([player EXCEPT !.clicks = @ + 1, !.skipCount = 0,
                                        !.advances = 0],
                         Plus(player.currentIndex, dir))
  /\ UNCHANGED besidePlayer

\* A click on Shuffle.
clickShuffle(r) ==
  /\ player.clicks < MaxPlayerClicks
  /\ player' = loadIndex([safeShuffle(player, r) EXCEPT !.clicks = @ + 1,
                                                        !.skipCount = 0,
                                                        !.advances = 0],
                         Num(0))
  /\ UNCHANGED besidePlayer

\* The sequence s without its element i.
Without(s, i) == SubSeq(s, 1, i - 1) \o SubSeq(s, i + 1, Len(s))

\* The response to prefetch i arrives, from a feed of total urls: its urls
\* are pushed, page and totalPages are taken from it, loading = false.
prefetchDone(i, total) ==
  /\ i \in 1..Len(player.inflight)
  /\ total >= player.feedTotal
  /\ LET k == player.inflight[i]
     IN  player' = [player EXCEPT !.urls = @ \o FeedUrls(k, total),
                                  !.page = k,
                                  !.totalPages = FeedTotalPages(total),
                                  !.loading = FALSE,
                                  !.inflight = Without(@, i),
                                  !.feedTotal = total]
  /\ UNCHANGED besidePlayer

\* Prefetch i fails, or its body is no JSON: loading = false.
prefetchFailed(i) ==
  /\ i \in 1..Len(player.inflight)
  /\ player' = [player EXCEPT !.loading = FALSE, !.inflight = Without(@, i)]
  /\ UNCHANGED besidePlayer

\* The page GET /fishtank sends. feedTotal is the number of urls the feed
\* had at its last response: scrapes only add to it.
InitPlayer ==
  /\ player = PlayerAtStart(0)
  /\ db = EmptyTables
  /\ SiteInit
  /\ KvInit
  /\ SchemaInit
  /\ JobInit
  /\ doc = Fetched(<< >>)
  /\ query = NoQuery(<< >>)
  /\ tx = [p \in Procs |-> EmptyTx]
  /\ pc = [p \in Procs |-> "idle"]
  /\ call = [p \in Procs |-> NoCall]
  /\ clock = 0
  /\ started = [op \in Ops |-> 0]
  /\ likeHist = << >>
  /\ saveHist = << >>
  /\ clickDone = [u \in Urls |-> 0]

NextPlayer ==
  \/ \E total \in 0..MaxFeedTotal : feedLoaded(total)
  \/ feedFailed
  \/ frameLoadBlank
  \/ \E blocked \in BOOLEAN : frameLoad(blocked)
  \/ \E t \in player.timers : timerFires(t)
  \/ \E dir \in { -1, 1 } : clickDir(dir)
  \/ \E r \in RandomDraws : clickShuffle(r)
  \/ \E i \in 1..Len(player.inflight), total \in 0..MaxFeedTotal :
       prefetchDone(i, total)
  \/ \E i \in 1..Len(player.inflight) : prefetchFailed(i)

SpecPlayer == InitPlayer /\ [][NextPlayer]_vars

\* Clicks on a store that holds a click on "b" of the day before.
InitClickDays ==
  /\ db = [EmptyTables EXCEPT
             !["clicks"] = { [url_hash |-> hashUrl(<<98>>), url |-> <<98>>, total |-> 1] },
             !["clicks_daily"] = { [url_hash |-> hashUrl(<<98>>), day |-> -1, count |-> 1] }]
  /\ SiteInit
  /\ KvInit
  /\ SchemaInit
  /\ JobInit
  /\ doc = Fetched(<< >>)
  /\ player = PlayerAtStart(0)
  /\ query = NoQuery(<< >>)
  /\ tx = [p \in Procs |-> EmptyTx]
  /\ pc = [p \in Procs |-> "idle"]
  /\ call = [p \in Procs |-> NoCall]
  /\ clock = 0
  /\ started = [op \in Ops |-> 0]
  /\ likeHist = << >>
  /\ saveHist = << >>
  /\ clickDone = [u \in Urls |-> 0]

SpecClickDays == InitClickDays /\ [][NextClicks]_vars

\* The extraction of the links of a fetched thread page.
InitPage ==
  /\ \E rows \in AnchorPages \cup RowPages : doc = Fetched(rows)
  /\ player = PlayerAtStart(0)
  /\ SiteInit
  /\ KvInit
  /\ SchemaInit
  /\ JobInit
  /\ query = NoQuery(<< >>)
  /\ db = EmptyTables
  /\ tx = [p \in Procs |-> EmptyTx]
  /\ pc = [p \in Procs |-> "idle"]
  /\ call = [p \in Procs |-> NoCall]
  /\ clock = 0
  /\ started = [op \in Ops |-> 0]
  /\ likeHist = << >>
  /\ saveHist = << >>
  /\ clickDone = [u \in Urls |-> 0]

NextPage ==
  \/ scrapeHnCommentsRow
  \/ scrapeHnCommentsReturns

SpecPage == InitPage /\ [][NextPage]_vars

\* The requests that track clicks and likes, handled one after another.
NextRequests ==
  \/ \E input \in UrlInputs : \E now \in Now : goRequest(input, now)
  \/ \E input \in BodyInputs : \E v \in Visitors : likeRequest(input, v)
  \/ \E input \in UrlInputs : \E v \in Visitors : likeStatusRequest(input, v)

SpecRequests == Init /\ [][NextRequests]_vars

\* The counters of the stores that are read: per url its clicks, and the
\* visitors who like it.
QueryCounters ==
  { [clicks |-> << >>, likes |-> << >>],
    [clicks |-> (<<98>> :> 1 @@ <<66>> :> 1),
     likes |-> (<<99>> :> { "v1", "v2" } @@ <<98>> :> {})],
    [clicks |-> (<<98>> :> 2 @@ <<99>> :> 1),
     likes |-> (<<98>> :> { "v1" } @@ <<66>> :> { "v2" })] }

\* The store that holds the links of S and the counters c.
QueryStore(S, c) ==
  [links |-> { StoredRow(l, 0) : l \in S },
   clicks |-> { [url_hash |-> hashUrl(u), url |-> u, total |-> c.clicks[u]] :
                  u \in DOMAIN c.clicks },
   clicks_daily |-> { [url_hash |-> hashUrl(u), day |-> 0, count |-> c.clicks[u]] :
                        u \in DOMAIN c.clicks },
   likes |-> { [url_hash |-> hashUrl(u), total |-> Cardinality(c.likes[u])] :
                 u \in DOMAIN c.likes },
   liked_by |-> UNION { { [url_hash |-> hashUrl(u), visitor_id |-> v] :
                            v \in c.likes[u] } : u \in DOMAIN c.likes }]

ScanOrders(S) ==
  { s \in [1..Cardinality(S) -> S] :
      \A i \in DOMAIN s : \A j \in DOMAIN s : s[i] = s[j] => i = j }

InitQuery ==
  /\ \E S \in SUBSET QueryLinks : \E c \in QueryCounters :
       /\ Cardinality(S) <= MaxRows
       /\ db = QueryStore(S, c)
       /\ \E scan \in ScanOrders(QueryStore(S, c).links) : query = NoQuery(scan)
  /\ tx = [p \in Procs |-> EmptyTx]
  /\ pc = [p \in Procs |-> "idle"]
  /\ call = [p \in Procs |-> NoCall]
  /\ clock = 0
  /\ started = [op \in Ops |-> 0]
  /\ likeHist = << >>
  /\ saveHist = << >>
  /\ clickDone = [u \in Urls |-> 0]
  /\ SiteInit
  /\ KvInit
  /\ SchemaInit
  /\ JobInit
  /\ doc = Fetched(<< >>)
  /\ player = PlayerAtStart(0)

\* Reads of a store whose contents stay the same.
NextQuery ==
  \/ \E options \in QueryOptions : getLinksCall(options)
  \/ \E urls \in SeqsUpTo({ HashedUrls[i] : i \in 1..Len(HashedUrls) }, MaxUrls) :
       \/ getClickCountsCall(urls)
       \/ getLikeCountsCall(urls)
  \/ \E pageParam \in PageParams : \E perPageParam \in PerPageParams :
       fishtankLinksRequest(pageParam, perPageParam)

SpecQuery == InitQuery /\ [][NextQuery]_vars

(* ------------------------------ claims --------------------------------- *)
Hashes == { hashUrl(u) : u \in Urls }

MembershipCount(h) == Cardinality({ r \in db["liked_by"] : r.url_hash = h })

StoredLikeTotal(h) ==
  LET rows == { r \in db["likes"] : r.url_hash = h }
  IN  IF rows = {} THEN 0 ELSE (CHOOSE r \in rows : TRUE).total

AllIdle == \A p \in Procs : pc[p] = "idle"

\* C1: after any sequence of toggleLike calls run one at a time from the
\* empty store, the like total stored for every url hash equals the number
\* of liked_by rows for that hash.
C1_TotalEqualsMembership ==
  \A h \in Hashes : StoredLikeTotal(h) = MembershipCount(h)

\* C1 witness: an unlike has returned and some url is still liked by a visitor.
C1_Witness ==
  /\ Len(likeHist) = 2
  /\ ~likeHist[2].liked
  /\ \E h \in Hashes : StoredLikeTotal(h) >= 1 /\ MembershipCount(h) >= 1

\* C2: concurrent toggleLike calls for the same (url, visitor), in any
\* interleaving of their statements, leave the committed like total of the
\* url equal to its number of membership rows.
C2_ConcurrentTogglesConsistent ==
  \A h \in Hashes :
    \A r \in db["likes"] : r.url_hash = h => r.total = MembershipCount(h)

\* C3: no two stored links have the same (commentUrl, extractedLink) pair,
\* in any interleaving of saveLinks calls.
C3_PairsUnique ==
  \A r1 \in db["links"] : \A r2 \in db["links"] :
    (r1.comment_url = r2.comment_url /\ r1.extracted_link = r2.extracted_link)
      => r1 = r2

\* C3 witness: two overlapping saveLinks calls have both ended, rows are
\* stored, and a stored row was touched again after it was created.
C3_Witness ==
  /\ AllIdle
  /\ started["saveLinks"] = 2
  /\ saveHist = << >>
  /\ \E r \in db["links"] : r.updated_at > r.created_at

\* C4: overlapping saveLinks calls never fail because of each other: no
\* saveLinks call is ended by the store with a deadlock or a unique violation.
C4_OverlappingSavesBothCommit ==
  \A p \in Procs :
    (pc[p] = "raised" /\ call[p].op = "saveLinks")
      => call[p].error \notin { "deadlock_detected", "unique_violation" }

SeqToSet(q) == { q[i] : i \in 1..Len(q) }

DistinctIds(links) == Cardinality({ LinkIds[l] : l \in SeqToSet(links) })

\* Two saveLinks calls in a row with the same list.
SameListTwice ==
  /\ Len(saveHist) = 2
  /\ saveHist[1].links = saveHist[2].links

\* C5 as stated: two saveLinks calls in a row with the same list of N links,
\* none stored beforehand, return N and then 0, and the second leaves the
\* number of rows unchanged.
C5_SecondSaveReturnsZero_Original ==
  (SameListTwice /\ saveHist[1].freshPairs) =>
    /\ saveHist[1].ret = Len(saveHist[1].links)
    /\ saveHist[2].ret = 0
    /\ saveHist[2].rowsAfter = saveHist[1].rowsAfter

\* C5 amended: two saveLinks calls in a row with the same list, none of whose
\* ids is stored beforehand, return the number of distinct ids of the list
\* and then 0, and the second leaves the number of rows unchanged.
C5_SecondSaveReturnsZero ==
  (SameListTwice /\ saveHist[1].freshIds) =>
    /\ saveHist[1].ret = DistinctIds(saveHist[1].links)
    /\ saveHist[2].ret = 0
    /\ saveHist[2].rowsAfter = saveHist[1].rowsAfter

\* C5 witness: the same two-link list was saved twice in a row into a store
\* that held none of its ids.
C5_Witness ==
  /\ SameListTwice
  /\ saveHist[1].freshIds
  /\ Len(saveHist[1].links) = 2
  /\ saveHist[1].ret = 2

\* C6: the value saveLinks returns is the number of rows the call added
\* (rows after minus rows before), for a call no other writer overlaps.
C6_ReturnIsRowsAdded ==
  \A i \in 1..Len(saveHist) :
    saveHist[i].ret = saveHist[i].rowsAfter - saveHist[i].rowsBefore

\* C6 witness: a batch of two links of which exactly one made a new row
\* (a repeated pair, or one stored and one unstored pair).
C6_Witness ==
  \E i \in 1..Len(saveHist) :
    /\ Len(saveHist[i].links) = 2
    /\ saveHist[i].ret = 1
    /\ saveHist[i].rowsAfter = saveHist[i].rowsBefore + 1

\* C7: when a statement of saveLinks, trackClick or toggleLike fails after
\* BEGIN, the call raises and the committed store equals the store before
\* the call, with nothing of the transaction left open.
C7_FailureRollsBack ==
  \A p \in Procs :
    pc[p] = "raised" => (db = call[p].pre /\ tx[p] = EmptyTx)

\* C7 witness: a saveLinks call raised after its first INSERT had executed.
C7_Witness ==
  \E p \in Procs :
    /\ pc[p] = "raised"
    /\ call[p].op = "saveLinks"
    /\ call[p].i = 2
    /\ call[p].newCount = 1

\* C8: the click total getClickCounts reports for a url equals the number of
\* trackClick(url) calls that completed, in any interleaving.
C8_NoClickLost ==
  \A u \in Urls : getClickCounts(<<u>>)[u] = clickDone[u]

\* C8 witness: two trackClick calls for a url have completed and a third,
\* overlapping one is about to commit.
C8_Witness ==
  \E p \in Procs :
    /\ pc[p] = "tc_commit"
    /\ ~call[p].solo
    /\ clickDone[call[p].url] = 2

\* Two toggleLike calls in a row for the same (url, visitor).
SamePairTwice ==
  /\ Len(likeHist) = 2
  /\ likeHist[1].url = likeHist[2].url
  /\ likeHist[1].visitorId = likeHist[2].visitorId

\* C9 as stated: two consecutive toggleLike(url, visitor) calls return
\* liked=true then liked=false, the second count is the total before the
\* first call, and getUserLikes([url], visitor) then excludes url.
C9_ToggleTwice_Original ==
  SamePairTwice =>
    /\ likeHist[1].liked
    /\ ~likeHist[2].liked
    /\ likeHist[2].count = likeHist[1].before
    /\ likeHist[2].url \notin getUserLikes(<<likeHist[2].url>>, likeHist[2].visitorId)

\* C9 amended: the same, for a visitor who has no membership row for the url
\* before the first call.
C9_ToggleTwice ==
  (SamePairTwice /\ ~likeHist[1].memberBefore) =>
    /\ likeHist[1].liked
    /\ ~likeHist[2].liked
    /\ likeHist[2].count = likeHist[1].before
    /\ likeHist[2].url \notin getUserLikes(<<likeHist[2].url>>, likeHist[2].visitorId)

\* C9 witness: a visitor liked and unliked a url another visitor likes.
C9_Witness ==
  /\ SamePairTwice
  /\ ~likeHist[1].memberBefore
  /\ likeHist[1].before = 1
  /\ likeHist[2].count = 1

\* C10: no like total is ever negative, and a toggleLike that found total 0
\* and no membership row of its visitor returns liked=true, count=1.
C10_NeverNegative ==
  /\ \A r \in db["likes"] : r.total >= 0
  /\ \A p \in Procs : \A r \in tx[p].ins["likes"] : r.total >= 0
  /\ \A i \in 1..Len(likeHist) :
       (likeHist[i].before = 0 /\ ~likeHist[i].memberBefore)
         => (likeHist[i].liked /\ likeHist[i].count = 1)

\* C10 witness: the first like of a url has returned liked=true, count=1
\* while other toggleLike calls are in flight.
C10_Witness ==
  /\ \E i \in 1..Len(likeHist) :
       /\ likeHist[i].before = 0
       /\ ~likeHist[i].memberBefore
       /\ likeHist[i].liked
       /\ likeHist[i].count = 1
  /\ \E p \in Procs : pc[p] = "tl_dec"

\* C11: runScraper never propagates an error: a run in which the fetch,
\* saveLinks or getTotalCount failed returns {newCount: 0, totalCount: 0},
\* and no failed scrape ends the process.
C11_ScraperNeverThrows ==
  /\ \A t \in Triggers :
       /\ ~scrape[t].threw
       /\ (scrape[t].pc = "returned" /\ scrape[t].failed # "none")
            => scrape[t].result = NoResult
  /\ host.error # "runScraper"

\* C11 witness: the startup scrape failed at the fetch, and a later tick's
\* scrape stored a link, failed at getTotalCount and returned zeros.
C11_Witness ==
  /\ scrape["startup"].pc = "returned"
  /\ scrape["startup"].failed \in { "network", "status" }
  /\ host.ticks >= 1
  /\ scrape["tick"].pc = "returned"
  /\ scrape["tick"].failed = "getTotalCount"
  /\ scrape["tick"].newCount = 1
  /\ scrape["tick"].result = NoResult

\* C12: at process start runScraper is invoked if and only if getTotalCount()
\* returns 0: with links in the store no startup scrape runs, and scrapes
\* are started by the hourly trigger only.
C12_StartupScrapeIffEmpty ==
  host.pc \in { "awaiting", "serving" } =>
    /\ host.startupScrape <=> host.emptyAtStart
    /\ ~host.emptyAtStart => scrape["startup"].pc = "idle"

\* C13: getTotalCount returns exactly the number of stored links, also after
\* overlapping saveLinks calls: in the relational store, and in the key-value
\* variant with its [meta, count] counter, whenever no saveLinks call is
\* between two of its writes.
C13_TotalCountIsRowCount ==
  /\ getTotalCount = Cardinality(db["links"])
  /\ (\A t \in Triggers : kvcall[t].pc = "idle")
       => kvGetTotalCount = Cardinality(kv.links)

\* C14: the schema initialization is started at most once per process, and
\* a store operation gets its connection only after that one initialization
\* has completed.
C14_SchemaInitOnce ==
  /\ schema.ddlRuns <= 1
  /\ \A c \in Callers :
       caller[c] \in { "await_schema", "connect", "query", "raised" }
         => schema.ddlRuns = 1
  /\ \A c \in Callers :
       caller[c] \in { "connect", "query" } => schema.init = "resolved"

\* C14 witness: the DDL block is running and two operations wait for it.
C14_Witness ==
  /\ schema.initPc = "ddl"
  /\ schema.ddlRuns = 1
  /\ \E c1 \in Callers : \E c2 \in Callers \ {c1} :
       caller[c1] = "await_schema" /\ caller[c2] = "await_schema"

LowerCode(c) == IF c \in 65..90 THEN c + 32 ELSE c

\* s contains sub as a substring when upper and lower case are not told apart.
ContainsIgnoringCase(s, sub) ==
  \E k \in 0..(Len(s) - Len(sub)) :
    \A j \in 1..Len(sub) : LowerCode(s[k + j]) = LowerCode(sub[j])

\* The ids of the stored links whose author or extractedLink contains search.
MatchingIds(search) ==
  { r.id : r \in { x \in db["links"] :
      \/ ContainsIgnoringCase(x.author, search)
      \/ ContainsIgnoringCase(x.extracted_link, search) } }

\* Every page of the listing has been read, from the first to the last.
ListingRead ==
  /\ query.op = "getLinks"
  /\ query.browsing
  /\ query.options.page = query.res.totalPages

\* C15: getLinks returns exactly the stored links whose author or
\* extractedLink contains the search string, compared case-insensitively
\* (every stored link for an empty search), and total is their number.
C15_SearchMatches ==
  query.op = "getLinks" =>
    /\ query.res.total = Cardinality(MatchingIds(query.options.search))
    /\ \A i \in 1..Len(query.res.links) :
         query.res.links[i].id \in MatchingIds(query.options.search)
    /\ ListingRead =>
         /\ { query.acc[i].id : i \in 1..Len(query.acc) }
              = MatchingIds(query.options.search)
         /\ Len(query.acc) = query.res.total

\* C15 witness: the search "AL" on a store of three links has returned the
\* links of "Al" and "al" and no other.
C15_Witness ==
  /\ ListingRead
  /\ query.options.search = <<65, 76>>
  /\ Cardinality(db["links"]) = 3
  /\ { query.acc[i].author : i \in 1..Len(query.acc) } = { <<65, 108>>, <<97, 108>> }

\* C16: for 1 <= page <= totalPages getLinks returns the entries at positions
\* (page-1)*perPage .. page*perPage-1 of the filtered sorted list, and the
\* pages 1..totalPages concatenated are that list.
C16_PagesPartitionList ==
  query.op = "getLinks" =>
    LET list == FilteredSorted(query.options, query.scan)
        page == query.options.page
        perPage == query.options.perPage
    IN  /\ (1 <= page /\ page <= query.res.totalPages) =>
             query.res.links =
               SubSeq(list, (page - 1) * perPage + 1,
                      IF page * perPage <= Len(list) THEN page * perPage ELSE Len(list))
        /\ ListingRead => query.acc = list

\* C16 witness: three matching links read two per page: two links, then one.
C16_Witness ==
  /\ ListingRead
  /\ query.options.perPage = 2
  /\ query.options.page = 2
  /\ query.res.total = 3
  /\ Len(query.res.links) = 1
  /\ Len(query.acc) = 3

\* C17: getLinks called with an out-of-range page (page > totalPages, page = 0
\* or a negative page) returns an empty list of links.
C17_OutOfRangePageIsEmpty ==
  (/\ query.op = "getLinks"
   /\ \/ query.options.page > query.res.totalPages
      \/ query.options.page <= 0)
    => Len(query.res.links) = 0

\* C18: getLinks returns totalPages = max(1, ceil(total / perPage)).
C18_TotalPagesAtLeastOne ==
  query.op = "getLinks" =>
    LET total == query.res.total
        perPage == query.options.perPage
        ceil == CHOOSE n \in 0..total :
                  n * perPage >= total /\ (n = 0 \/ (n - 1) * perPage < total)
    IN  query.res.totalPages = IF ceil >= 1 THEN ceil ELSE 1

StoredClickTotal(h) ==
  LET rows == { r \in db["clicks"] : r.url_hash = h }
  IN  IF rows = {} THEN 0 ELSE (CHOOSE r \in rows : TRUE).total

\* The stored total the listing is sorted by, for a link.
SortTotal(link) ==
  IF query.options.sort = "clicks"
  THEN StoredClickTotal(hashUrl(link.extractedLink))
  ELSE StoredLikeTotal(hashUrl(link.extractedLink))

PositionInScan(link) == CHOOSE i \in 1..Len(query.scan) : query.scan[i].id = link.id

\* C19: with sort 'clicks' or 'likes' the links are ordered by the counter's
\* stored total (0 without a counter row), non-decreasing for asc and
\* non-increasing for desc, and links with equal totals keep the order they
\* had before sorting.
C19_SortedByCounterStable ==
  (ListingRead /\ query.options.sort \in { "clicks", "likes" }) =>
    \A i \in 1..Len(query.acc) : \A j \in 1..Len(query.acc) :
      i < j =>
        /\ query.options.order = "asc" => SortTotal(query.acc[i]) <= SortTotal(query.acc[j])
        /\ query.options.order = "desc" => SortTotal(query.acc[i]) >= SortTotal(query.acc[j])
        /\ SortTotal(query.acc[i]) = SortTotal(query.acc[j])
             => PositionInScan(query.acc[i]) < PositionInScan(query.acc[j])

\* C19 witness: three links sorted by clicks, descending: two with the same
\* total in the order the store returned them, and one with another total.
C19_Witness ==
  /\ ListingRead
  /\ query.options.sort = "clicks"
  /\ query.options.order = "desc"
  /\ Len(query.acc) = 3
  /\ SortTotal(query.acc[1]) = SortTotal(query.acc[2])
  /\ SortTotal(query.acc[2]) > SortTotal(query.acc[3])

\* C20: getClickCounts(urls) and getLikeCounts(urls) return a map whose keys
\* are exactly the input urls, each mapped to the stored total of its hash,
\* or to 0 when there is no counter row.
C20_CountsForEveryUrl ==
  /\ query.op = "getClickCounts" =>
       /\ DOMAIN query.counts = SeqToSet(query.urls)
       /\ \A u \in SeqToSet(query.urls) :
            query.counts[u] = StoredClickTotal(hashUrl(u))
  /\ query.op = "getLikeCounts" =>
       /\ DOMAIN query.counts = SeqToSet(query.urls)
       /\ \A u \in SeqToSet(query.urls) :
            query.counts[u] = StoredLikeTotal(hashUrl(u))

\* C20 witness: getClickCounts(["b", "c"]) on a store with a counter row for
\* "b" only.
C20_Witness ==
  /\ query.op = "getClickCounts"
  /\ query.urls = << <<98>>, <<99>> >>
  /\ query.counts[<<98>>] = 1
  /\ query.counts[<<99>>] = 0
  /\ StoredClickTotal(hashUrl(<<99>>)) = 0
  /\ \A r \in db["clicks"] : r.url_hash # hashUrl(<<99>>)


\* C21: called with an empty list, saveLinks returns 0 and getClickCounts,
\* getLikeCounts and getUserLikes return an empty result without any store
\* access: the call does not enter withClient, so it triggers no schema
\* initialization, acquires no connection and issues no statement.
C21_EmptyInputNoStoreAccess ==
  LET ListOps == { "saveLinks", "getClickCounts", "getLikeCounts", "getUserLikes" }
      EmptyCall(c) == job[c].op \in ListOps /\ Len(job[c].args) = 0
  IN  /\ \A c \in Callers :
           EmptyCall(c) =>
             /\ job[c].state = "returned"
             /\ caller[c] = "idle"
             /\ job[c].statements = 0
             /\ job[c].result = NoValue
      /\ (\A c \in Callers : job[c].op = "none" \/ EmptyCall(c)) =>
           /\ schema.ddlRuns = 0
           /\ schema.inUse = 0


\* The value stored for the export counter, 0 without a row.
ExportsStored == IF "exports" \in DOMAIN meta THEN meta["exports"] ELSE 0

\* The trackExport calls that have returned.
ExportsCompleted ==
  Cardinality({ c \in Callers : job[c].op = "trackExport" /\ job[c].state = "returned" })

\* C26: the export counter never decreases and counts every export: in any
\* interleaving of the calls it holds the number of completed trackExport
\* calls, and that number is what a getExportCount call returns.
C26_ExportsCounted ==
  [][ /\ ExportsStored' >= ExportsStored
      /\ ExportsStored' = ExportsCompleted'
      /\ \A c \in Callers :
           (/\ job[c].op = "getExportCount"
            /\ job[c].state = "withClient"
            /\ job'[c].state = "returned")
             => job'[c].result.count = ExportsCompleted ]_vars

\* C26 witness: two trackExport calls have returned and a getExportCount call
\* returned 2.
C26_Witness ==
  /\ job[1].op = "trackExport" /\ job[1].state = "returned"
  /\ job[2].op = "trackExport" /\ job[2].state = "returned"
  /\ job[3].op = "getExportCount" /\ job[3].state = "returned"
  /\ job[3].result.count = 2
  /\ ExportsStored = 2


\* C22: a /go, /like or /like/status request that lacks a url is answered
\* with status 400 before any store operation is invoked: none of trackClick,
\* toggleLike, getLikeCounts and getUserLikes is called and the store is as
\* it was.
C22_MissingUrlIs400 ==
  (req.route # "none" /\ req.input.kind # "url") =>
    /\ req.status = 400
    /\ req.calls = << >>
    /\ db = req.before


\* The row has an indentation image whose width attribute names a number
\* other than 0 or no number: a non-empty string with a character that is
\* not "0".
WidthIsNotZero(row) ==
  /\ row.img
  /\ row.width.present
  /\ \E k \in 1..Len(row.width.value) : row.width.value[k] # 48

\* The links that the iteration of this step adds to results.
LinksAdded == SubSeq(doc'.results, Len(doc.results) + 1, Len(doc'.results))

\* C23: extraction emits no Link for a comment row that has no indentation
\* image or whose image's width is not 0: only rows of width 0 contribute.
C23_OnlyTopLevelRows ==
  [][ (/\ doc'.i = doc.i + 1
       /\ \/ ~doc.rows[doc.i].img
          \/ WidthIsNotZero(doc.rows[doc.i]))
        => doc'.results = doc.results ]_vars

\* C23 witness: a page whose first row has width "40" and whose second row,
\* of width "0" and id "2", has two anchors: the two links returned are of
\* the second row.
C23_Witness ==
  /\ doc.pc = "returned"
  /\ Len(doc.rows) = 2
  /\ doc.rows[1].width = Present(<<52, 48>>)
  /\ Len(doc.rows[1].commtext.value) > 0
  /\ doc.rows[2].width = Present(<<48>>)
  /\ doc.rows[2].id = Present(<<50>>)
  /\ Len(doc.results) = 2
  /\ \A k \in 1..2 : doc.results[k].commentUrl = BASE_URL \o ItemPath \o <<50>>

HasPrefix(s, prefix) ==
  /\ Len(s) >= Len(prefix)
  /\ \A k \in 1..Len(prefix) : s[k] = prefix[k]

\* What the claim says is emitted for an href: nothing, the href after the
\* base origin, or the href.
ExpectedUrl(href) ==
  IF HasPrefix(href, <<114, 101, 112, 108, 121, 63>>) \/ HasPrefix(href, <<117, 115, 101, 114, 63>>) THEN << >>
  ELSE IF Len(href) = 0 \/ href = <<35>> THEN << >>
  ELSE IF href[1] = 47 THEN << BASE_URL \o href >>
  ELSE << href >>

RECURSIVE ExpectedUrls(_)
ExpectedUrls(anchors) ==
  IF Len(anchors) = 0 THEN << >>
  ELSE (IF Head(anchors).present THEN ExpectedUrl(Head(anchors).value) ELSE << >>)
         \o ExpectedUrls(Tail(anchors))

\* C24: for every anchor of the comment text of a row of width 0: an href
\* that starts with "reply?" or "user?" emits nothing, the empty href and "#"
\* emit nothing, an href that starts with "/" is emitted after the base
\* origin https://news.ycombinator.com, and every other href is emitted
\* unchanged.
C24_HrefRules ==
  [][ (/\ doc'.i = doc.i + 1
       /\ doc.rows[doc.i].img
       /\ ~WidthIsNotZero(doc.rows[doc.i])
       /\ doc.rows[doc.i].commtext.present)
        => [k \in 1..Len(LinksAdded) |-> LinksAdded[k].extractedLink]
             = ExpectedUrls(doc.rows[doc.i].commtext.value) ]_vars

\* C24 witness: the comment text has the anchors "/f" and "reply?x"; the one
\* link returned is https://news.ycombinator.com/f.
C24_Witness ==
  /\ doc.pc = "returned"
  /\ Len(doc.rows) = 1
  /\ doc.rows[1].commtext.value = << Present(<<47, 102>>), Present(<<114, 101, 112, 108, 121, 63, 120>>) >>
  /\ Len(doc.results) = 1
  /\ doc.results[1].extractedLink = <<104, 116, 116, 112, 115, 58, 47, 47, 110, 101, 119, 115, 46, 121, 99, 111, 109, 98, 105, 110, 97, 116, 111, 114, 46, 99, 111, 109, 47, 102>>

\* The author text without its spaces, or "unknown".
ExpectedAuthor(row) ==
  LET text == IF row.hnuser.present
              THEN SelectSeq(row.hnuser.value, LAMBDA ch : ch # 32) ELSE << >>
  IN  IF text = << >> THEN <<117, 110, 107, 110, 111, 119, 110>> ELSE text

ExpectedCommentUrl(row) ==
  IF row.id.present /\ row.id.value # << >>
  THEN <<104, 116, 116, 112, 115, 58, 47, 47, 110, 101, 119, 115, 46, 121, 99, 111, 109, 98, 105, 110, 97, 116, 111, 114, 46, 99, 111, 109, 47, 105, 116, 101, 109, 63, 105, 100, 61>> \o row.id.value
  ELSE << >>

\* The links of the rows in document order, each row's in the order of its
\* anchors, every emitting anchor once.
RECURSIVE ExpectedLinks(_)
ExpectedLinks(rows) ==
  IF Len(rows) = 0 THEN << >>
  ELSE LET row == Head(rows)
           urls == IF row.img /\ ~WidthIsNotZero(row) /\ row.commtext.present
                   THEN ExpectedUrls(row.commtext.value) ELSE << >>
       IN  [k \in 1..Len(urls) |->
              [author |-> ExpectedAuthor(row),
               commentUrl |-> ExpectedCommentUrl(row),
               extractedLink |-> urls[k]]]
             \o ExpectedLinks(Tail(rows))

\* C25: the output lists the links in document order of the rows and then of
\* the anchors of a row, without deduplication, each with the author and
\* commentUrl of its own row ("unknown" without author, "" without id); a
\* top-level row without comment text contributes nothing and the rows after
\* it are still extracted.
C25_DocumentOrder ==
  doc.results = ExpectedLinks(SubSeq(doc.rows, 1, doc.i - 1))

\* C25 witness: a top-level row without comment text, then the row of " bo "
\* with id "2" and the anchor "h" twice: two equal links are returned.
C25_Witness ==
  /\ doc.pc = "returned"
  /\ Len(doc.rows) = 2
  /\ doc.rows[1].img /\ doc.rows[1].width = Present(<<48>>)
  /\ ~doc.rows[1].commtext.present
  /\ doc.rows[2].hnuser = Present(<<32, 98, 111, 32>>)
  /\ Len(doc.results) = 2
  /\ doc.results[1] = doc.results[2]
  /\ doc.results[1].author = <<98, 111>>


\* The urls of the stored links.
StoredUrls == { r.extracted_link : r \in db["links"] }

\* Every page of the feed has been read, from the first to the last.
FeedRead ==
  /\ query.op = "fishtank"
  /\ query.browsing
  /\ query.options.page = query.res.totalPages

\* C27: the fishtank feed returns at most perPage urls per page (200 without
\* a perPage parameter), total is the number of distinct extractedLinks,
\* totalPages = max(1, ceil(total / perPage)), and the pages 1..totalPages
\* together hold each distinct extractedLink exactly once.
C27_FeedDistinctUrls ==
  query.op = "fishtank" =>
    LET perPage == query.options.perPage
        total == query.res.total
    IN  /\ Len(query.res.links) <= perPage
        /\ ~query.params.perPage.present => perPage = 200
        /\ total = Cardinality(StoredUrls)
        /\ query.res.totalPages >= 1
        /\ query.res.totalPages * perPage >= total
        /\ query.res.totalPages > 1 => (query.res.totalPages - 1) * perPage < total
        /\ FeedRead =>
             /\ { query.acc[k] : k \in 1..Len(query.acc) } = StoredUrls
             /\ Len(query.acc) = Cardinality(StoredUrls)

\* C27 witness: three stored links, two of them with the same url, read one
\* url per page: two pages of one url.
C27_Witness ==
  /\ FeedRead
  /\ Cardinality(db["links"]) = 3
  /\ Cardinality(StoredUrls) = 2
  /\ query.options.perPage = 1
  /\ query.res.totalPages = 2
  /\ Len(query.acc) = 2
  /\ query.acc[1] # query.acc[2]


\* C28: when saveLinks processes a link whose id is already stored, the only
\* field of that row that changes is updatedAt (to the call's now): id,
\* author, commentUrl, extractedLink and createdAt stay as first stored, and
\* no row of another id is changed.
C28_TouchOnlyUpdatedAt ==
  [][ \A r \in db["links"] :
        \E r2 \in db'["links"] :
          /\ r2 = [r EXCEPT !.updated_at = r2.updated_at]
          /\ r2 # r =>
               \E p \in Procs :
                 /\ pc[p] = "sl_commit" /\ pc'[p] = "idle"
                 /\ \E k \in 1..Len(call[p].links) : LinkIds[call[p].links[k]] = r.id
                 /\ r2.updated_at = call[p].now ]_vars

\* C28 witness: the pair ("a", "b"), stored at time 0 with the author "a",
\* was saved again at time 1 with the author "c": the row has the author "a",
\* createdAt 0 and updatedAt 1.
C28_Witness ==
  /\ \A p \in Procs : pc[p] = "idle"
  /\ Len(saveHist) > 0
  /\ saveHist[Len(saveHist)].links = << LinkABByC >>
  /\ \E r \in db["links"] :
       /\ r.id = LinkIds[LinkAB]
       /\ r.author = <<97>>
       /\ r.created_at = 0
       /\ r.updated_at = 1


RECURSIVE SumOfCounts(_)
SumOfCounts(rows) ==
  IF rows = {} THEN 0
  ELSE LET r == CHOOSE x \in rows : TRUE
       IN  r.count + SumOfCounts(rows \ { r })

\* C29: in every committed state the click total stored for a url hash is
\* the sum of that hash's daily click counts over all days.
C29_TotalIsSumOfDays ==
  \A u \in Urls :
    StoredClickTotal(hashUrl(u))
      = SumOfCounts({ r \in db["clicks_daily"] : r.url_hash = hashUrl(u) })

\* C29 witness: "b", clicked once the day before, has been clicked twice
\* today and a third click of today is between its two statements: the
\* committed total is 3 and the committed daily counts are 1 and 2.
C29_Witness ==
  /\ StoredClickTotal(hashUrl(<<98>>)) = 3
  /\ \E r \in db["clicks_daily"] : r.url_hash = hashUrl(<<98>>) /\ r.day = -1 /\ r.count = 1
  /\ \E r \in db["clicks_daily"] : r.url_hash = hashUrl(<<98>>) /\ r.day = 0 /\ r.count = 2
  /\ \E p \in Procs : pc[p] = "tc_daily"


\* C30: when a toggleLike call commits and returns, liked is true exactly
\* when the (url hash, visitor) membership row is stored after the call, and
\* count is the like total stored for the url hash after the call.
C30_ResultReflectsCommit ==
  [][\A p \in Procs :
       (pc[p] = "tl_commit" /\ pc'[p] = "idle") =>
         /\ call[p].liked <=>
              ([url_hash |-> call[p].urlHash, visitor_id |-> call[p].visitorId]
                 \in db'["liked_by"])
         /\ \E r \in db'["likes"] :
              r.url_hash = call[p].urlHash /\ r.total = call[p].count]_vars


\* C35: once the schema initialization has rejected, it stays rejected and
\* is not started again, no connection is taken, and every store operation
\* that awaits it, one called afterwards included, is thrown the rejection.
C35_RejectedInitNotRetried ==
  [][schema.init = "rejected" =>
       /\ schema' = schema
       /\ \A c \in Callers :
            /\ caller'[c] \notin { "connect", "query" }
            /\ (caller[c] = "await_schema" /\ caller'[c] # caller[c])
                 => caller'[c] = "raised"]_vars

\* C35 witness: the initialization has rejected after one start; one
\* operation has been thrown the rejection, another awaits the cached
\* promise and the others are not in withClient.
C35_Witness ==
  /\ schema.init = "rejected"
  /\ schema.ddlRuns = 1
  /\ \E c1 \in Callers : \E c2 \in Callers \ {c1} :
       /\ caller[c1] = "raised"
       /\ caller[c2] = "await_schema"
       /\ \A c \in Callers \ {c1, c2} : caller[c] = "idle"


RECURSIVE SumOfTotals(_)
SumOfTotals(rows) ==
  IF rows = {} THEN 0
  ELSE LET r == CHOOSE x \in rows : TRUE
       IN  r.total + SumOfTotals(rows \ { r })

LikesBefore == Cardinality({ r \in db["liked_by"] : r.visitor_id = "v0" })

CallsInFlight == Cardinality({ p \in Procs : pc[p] # "idle" })

\* C33: overlapping toggleLike calls of visitors who have not liked the url
\* all succeed (none raises, none waits in a cycle, none takes the unlike
\* branch), and the committed like totals have grown by exactly the number
\* of calls that have returned, each url's total being its number of
\* membership rows.
C33_FirstLikesAllCounted ==
  /\ \A p \in Procs :
       /\ pc[p] \notin { "raised", "tl_delete", "tl_dec" }
       /\ p \notin WaitClosure(WaitsFor(p), PoolSize)
  /\ SumOfTotals(db["likes"]) = LikesBefore + started["toggleLike"] - CallsInFlight
  /\ \A h \in Hashes : StoredLikeTotal(h) = MembershipCount(h)

\* C33 witness: three visitors have liked the first url, which "v0" liked
\* before, the last of them returning from a call that overlapped another;
\* the total is 4.
C33_Witness ==
  /\ AllIdle
  /\ started["toggleLike"] = 3
  /\ StoredLikeTotal(hashUrl(UrlList[1])) = 4
  /\ likeHist = << >>


\* C34: the newCount a run of runScraper returns is the number of link rows
\* the run committed; a run that returns newCount 0 after a failure has
\* committed no row.
C34_NewCountIsRowsCommitted ==
  \A t \in Triggers :
    scrape[t].pc = "returned" => scrape[t].result.newCount = scrape[t].newCount


\* C32: generateId gives links of different (commentUrl, extractedLink)
\* pairs different ids: the row whose id saveLinks finds in conflict with a
\* link's id is always the row of that link's pair.
C32_IdsDistinguishPairs ==
  \A p \in Procs :
    (pc[p] = "sl_insert" /\ call[p].i <= Len(call[p].links)) =>
      LET link == call[p].links[call[p].i]
      IN  \A r \in View(p, "links") :
            r.id = LinkIds[link] =>
              /\ r.comment_url = link.commentUrl
              /\ r.extracted_link = link.extractedLink


ConnectionsHeld ==
  Cardinality({ c \in Callers : caller[c] = "query" })
    + (IF schema.initPc = "ddl" THEN 1 ELSE 0)

\* C31: the connections in use are those of the operations running their
\* statements, never more than the pool has; an operation that holds a
\* connection requests no other one and releases it when it ends; and every
\* operation that requests a connection obtains one.
C31_PoolNeverStarves ==
  /\ [](schema.inUse = ConnectionsHeld /\ schema.inUse <= PoolSize)
  /\ [][\A c \in Callers :
          caller[c] = "query" => caller'[c] \in { "query", "idle" }]_vars
  /\ \A c \in Callers :
       /\ (caller[c] = "connect") ~> (caller[c] = "query")
       /\ (caller[c] = "query") ~> (caller[c] = "idle")

\* C31 witness: the three connections are in use and a fourth operation
\* waits for one.
C31_Witness ==
  /\ schema.inUse = PoolSize
  /\ \E c \in Callers : caller[c] = "connect"


\* C36: the sites skipped to in a row are fewer than urls.length, so that
\* the skip which brings skipCount to urls.length or beyond loads nothing
\* more and shows 'No embeddable sites found.'; a click on Prev, Next or
\* Shuffle and a load that is not blocked leave skipCount at 0.
C36_SkippingStops ==
  /\ [](player.advances = 0 \/ player.advances < Len(player.urls))
  /\ [](player.status = "" => player.skipCount = 0)
  /\ [][/\ (/\ player'.skipCount = player.skipCount + 1
             /\ player'.skipCount >= Len(player.urls))
            => /\ player'.status = "No embeddable sites found."
               /\ player'.loadToken = player.loadToken
               /\ player'.timers \subseteq player.timers
         /\ (player'.clicks # player.clicks => player'.skipCount = 0)]_vars

\* Every site of a list of two or more was skipped and the player stopped.
C36_Witness ==
  /\ player.phase = "playing"
  /\ Len(player.urls) >= 2
  /\ player.skipCount = Len(player.urls)
  /\ player.advances = Len(player.urls) - 1
  /\ player.status = "No embeddable sites found."
  /\ player.timers = {}


\* C37: while the player plays a list that is not empty, currentIndex is a
\* number with 0 <= currentIndex < urls.length, whatever clicks, skips and
\* prefetch responses came before; and the only timeout that can be pending
\* is the one of the latest load, so that none of a superseded load
\* advances the player.
C37_IndexInRange ==
  /\ player.phase = "playing"
       => /\ ~player.currentIndex.nan
          /\ 0 <= player.currentIndex.value
          /\ player.currentIndex.value < Len(player.urls)
  /\ player.timers \subseteq { player.loadToken }

\* After a click, a prefetched page and a skip the player is on the last
\* site of its list, the timeout of that load pending.
C37_Witness ==
  /\ player.phase = "playing"
  /\ player.clicks >= 1
  /\ Len(player.urls) > MaxFeedPerPage
  /\ player.skipCount >= 1
  /\ player.currentIndex = Num(Len(player.urls) - 1)
  /\ player.timers = { player.loadToken }


\* C38: at most one request for a further feed page is in flight, loading
\* is true exactly while it is, it asks for page + 1 with page < totalPages,
\* and no page of the feed is in urls twice.
C38_OnePrefetchAtATime ==
  /\ Len(player.inflight) <= 1
  /\ player.loading <=> Len(player.inflight) = 1
  /\ \A i \in 1..Len(player.inflight) :
       /\ player.inflight[i] = player.page + 1
       /\ player.page < player.totalPages
  /\ \A i, j \in 1..Len(player.urls) :
       player.urls[i] = player.urls[j] => i = j

\* Page 2 of the feed was appended and page 3 is asked for.
C38_Witness ==
  /\ player.loading
  /\ player.inflight = << 3 >>
  /\ player.page = 2
  /\ Len(player.urls) = 2 * MaxFeedPerPage

====
